---- MODULE Spec2Model ----
(***************************************************************************)
(* Model of the lpo presolve package (psf.go and the gpx interface file):  *)
(* the Rows / Cols / Elems store with its swap and delete primitives, the  *)
(* reduction kernels, the ReduceMatrix driver, the list of presolve        *)
(* operations (psOpList) and postSolve.                                    *)
(*                                                                         *)
(* Indices are 0-based as in the Go code; a sequence s is read at index i  *)
(* as s[i + 1].  A float64 is modelled as an exact fraction <<n, d>> in    *)
(* lowest terms with d > 0 (d = 0 stands for the result of a division by   *)
(* zero).                                                                  *)
(***************************************************************************)
EXTENDS Integers, Sequences, FiniteSets, TLC

VARIABLES Rows, Cols, Elems, ObjRow, psOpList, pc, psc, run, sol, last

vars == <<Rows, Cols, Elems, ObjRow, psOpList, pc, psc, run, sol, last>>

-----------------------------------------------------------------------------
(* float64 arithmetic *)

Abs(x) == IF x < 0 THEN 0 - x ELSE x

Sgn(x) == IF x > 0 THEN 1 ELSE IF x < 0 THEN 0 - 1 ELSE 0

RECURSIVE GCD(_, _)
GCD(a, b) == IF b = 0 THEN a ELSE GCD(b, a % b)

Norm(n, d) ==
    IF d = 0 THEN <<Sgn(n), 0>>
    ELSE LET s == Sgn(d)
             g == GCD(Abs(n), Abs(d))
         IN  <<(s * n) \div g, (s * d) \div g>>

Q(n) == <<n, 1>>

RAdd(a, b) == Norm(a[1] * b[2] + b[1] * a[2], a[2] * b[2])

RSub(a, b) == Norm(a[1] * b[2] - b[1] * a[2], a[2] * b[2])

RMul(a, b) == Norm(a[1] * b[1], a[2] * b[2])

RDiv(a, b) == Norm(a[1] * b[2], a[2] * b[1])

RNeg(a) == <<0 - a[1], a[2]>>

Plinfy == Q(1000000)

\* a < b; Plinfy and -Plinfy are compared without arithmetic, as the largest and
\* the smallest value
RLt(a, b) ==
    IF a = b THEN FALSE
    ELSE IF a = Plinfy \/ b = RNeg(Plinfy) THEN FALSE
    ELSE IF b = Plinfy \/ a = RNeg(Plinfy) THEN TRUE
    ELSE a[1] * b[2] < b[1] * a[2]

RLe(a, b) == a = b \/ RLt(a, b)

stateActive == "active"

stateLocked == "locked"

stateDelete == "delete"

-----------------------------------------------------------------------------
(* sequence helpers *)

At(s, i) == s[i + 1]

Put(s, i, v) == [s EXCEPT ![i + 1] = v]

Range(s) == {s[k] : k \in 1..Len(s)}

Occurs(s, v) == Cardinality({k \in 1..Len(s) : s[k] = v})

RECURSIVE FirstPos(_, _, _)
FirstPos(s, v, k) ==
    IF k > Len(s) THEN 0
    ELSE IF s[k] = v THEN k
    ELSE FirstPos(s, v, k + 1)

ReplaceFirstSkipped(s, old, new) == s

\* for j := 0; j < len(list); j++ { if list[j] == old { list[j] = new; break } }
ReplaceFirst(s, old, new) ==
    LET k == FirstPos(s, old, 1)
    IN  IF k = 0 THEN s ELSE [s EXCEPT ![k] = new]

\* newElemList = nil; for ... { if list[j] != v { newElemList = append(newElemList, list[j]) } }
Without(s, v) == SelectSeq(s, LAMBDA x : x # v)

-----------------------------------------------------------------------------
(* the store: st = [R |-> rows, C |-> cols, E |-> elems] *)

Store(R, C, E) == [R |-> R, C |-> C, E |-> E]

Fail(st) == [ok |-> FALSE, st |-> st]

Done(st) == [ok |-> TRUE, st |-> st]

RECURSIVE SetInRow(_, _, _, _)
SetInRow(E, list, k, dest) ==
    IF k > Len(list) THEN E
    ELSE SetInRow([E EXCEPT ![list[k] + 1].InRow = dest], list, k + 1, dest)

RECURSIVE SetInCol(_, _, _, _)
SetInCol(E, list, k, dest) ==
    IF k > Len(list) THEN E
    ELSE SetInCol([E EXCEPT ![list[k] + 1].InCol = dest], list, k + 1, dest)

swapRowsClamped(st, srcIndex, destIndex) ==
    IF srcIndex < 0 \/ srcIndex >= Len(st.R) THEN Fail(st)
    ELSE LET dest == IF destIndex < 0 \/ destIndex >= Len(st.R) THEN Len(st.R) - 1
                     ELSE destIndex
             E1 == SetInRow(st.E, At(st.R, srcIndex).HasElems, 1, dest)
             E2 == SetInRow(E1, At(st.R, dest).HasElems, 1, srcIndex)
             R2 == [st.R EXCEPT ![dest + 1] = At(st.R, srcIndex),
                                ![srcIndex + 1] = At(st.R, dest)]
         IN  Done(Store(R2, st.C, E2))

swapRows(st, srcIndex, destIndex) ==
    IF srcIndex < 0 \/ srcIndex >= Len(st.R) THEN Fail(st)
    ELSE IF destIndex < 0 \/ destIndex >= Len(st.R) THEN Fail(st)
    ELSE LET E1 == SetInRow(st.E, At(st.R, srcIndex).HasElems, 1, destIndex)
             E2 == SetInRow(E1, At(st.R, destIndex).HasElems, 1, srcIndex)
             R2 == [st.R EXCEPT ![destIndex + 1] = At(st.R, srcIndex),
                                ![srcIndex + 1] = At(st.R, destIndex)]
         IN  Done(Store(R2, st.C, E2))

swapCols(st, srcIndex, destIndex) ==
    IF srcIndex < 0 \/ srcIndex >= Len(st.C) THEN Fail(st)
    ELSE IF destIndex < 0 \/ destIndex >= Len(st.C) THEN Fail(st)
    ELSE LET E1 == SetInCol(st.E, At(st.C, srcIndex).HasElems, 1, destIndex)
             E2 == SetInCol(E1, At(st.C, destIndex).HasElems, 1, srcIndex)
             C2 == [st.C EXCEPT ![destIndex + 1] = At(st.C, srcIndex),
                                ![srcIndex + 1] = At(st.C, destIndex)]
         IN  Done(Store(st.R, C2, E2))

SwapElemsSkipped(E, iLastElem, iCurElem) == E

\* Swap the elements: tempElem = Elems[iLastElem]; Elems[iLastElem] = Elems[iCurElem]; ...
SwapElems(E, iLastElem, iCurElem) ==
    [E EXCEPT ![iLastElem + 1] = At(E, iCurElem), ![iCurElem + 1] = At(E, iLastElem)]

\* One pass of the loop of DelRow over the elements of the row being deleted.
\* elemList shares its array with Rows[lastRow].HasElems, which the loop
\* rewrites in place, so elemList[i] is read from the current row.
DelRowStep(st, lastRow, i, iLastElem) ==
    LET iCurElem == At(At(st.R, lastRow).HasElems, i)
        c1 == At(st.E, iCurElem).InCol
        C1 == [st.C EXCEPT ![c1 + 1].HasElems = Without(@, iCurElem)]
        r2 == At(st.E, iLastElem).InRow
        R2 == [st.R EXCEPT ![r2 + 1].HasElems = ReplaceFirst(@, iLastElem, iCurElem)]
        c2 == At(st.E, iLastElem).InCol
        C2 == [C1 EXCEPT ![c2 + 1].HasElems = ReplaceFirst(@, iLastElem, iCurElem)]
    IN  Store(R2, C2, SwapElems(st.E, iLastElem, iCurElem))

RECURSIVE DelRowLoop(_, _, _, _)
DelRowLoop(st, lastRow, i, iLastElem) ==
    IF i >= Len(At(st.R, lastRow).HasElems) THEN [st |-> st, iLastElem |-> iLastElem]
    ELSE DelRowLoop(DelRowStep(st, lastRow, i, iLastElem), lastRow, i + 1, iLastElem - 1)

\* Elems = Elems[:iLastElem+1]; Rows = Rows[:len(Rows)-1]
DelRowTruncate(lp) ==
    Done(Store(SubSeq(lp.st.R, 1, Len(lp.st.R) - 1),
               lp.st.C,
               SubSeq(lp.st.E, 1, lp.iLastElem + 1)))

DelRowSwapped(s1, lastRow) == DelRowTruncate(DelRowLoop(s1, lastRow, 0, Len(s1.E) - 1))

DelRow(st, srcRow) ==
    IF srcRow < 0 \/ srcRow > Len(st.R) - 1 THEN Fail(st)
    ELSE IF srcRow # Len(st.R) - 1
    THEN DelRowSwapped(swapRows(st, srcRow, Len(st.R) - 1).st, Len(st.R) - 1)
    ELSE DelRowSwapped(st, Len(st.R) - 1)

\* One pass of the loop of DelCol; elemList shares its array with
\* Cols[lastCol].HasElems.
DelColStep(st, lastCol, i, iLastElem) ==
    LET iCurElem == At(At(st.C, lastCol).HasElems, i)
        r1 == At(st.E, iCurElem).InRow
        R1 == [st.R EXCEPT ![r1 + 1].HasElems = Without(@, iCurElem)]
        r2 == At(st.E, iLastElem).InRow
        R2 == [R1 EXCEPT ![r2 + 1].HasElems = ReplaceFirst(@, iLastElem, iCurElem)]
        c2 == At(st.E, iLastElem).InCol
        C2 == [st.C EXCEPT ![c2 + 1].HasElems = ReplaceFirst(@, iLastElem, iCurElem)]
    IN  Store(R2, C2, SwapElems(st.E, iLastElem, iCurElem))

RECURSIVE DelColLoop(_, _, _, _)
DelColLoop(st, lastCol, i, iLastElem) ==
    IF i >= Len(At(st.C, lastCol).HasElems) THEN [st |-> st, iLastElem |-> iLastElem]
    ELSE DelColLoop(DelColStep(st, lastCol, i, iLastElem), lastCol, i + 1, iLastElem - 1)

\* Elems = Elems[:iLastElem+1]; Cols = Cols[:len(Cols)-1]
DelColTruncate(lp) ==
    Done(Store(lp.st.R,
               SubSeq(lp.st.C, 1, Len(lp.st.C) - 1),
               SubSeq(lp.st.E, 1, lp.iLastElem + 1)))

DelColSwapped(s1, lastCol) == DelColTruncate(DelColLoop(s1, lastCol, 0, Len(s1.E) - 1))

DelCol(st, srcCol) ==
    IF srcCol < 0 \/ srcCol > Len(st.C) - 1 THEN Fail(st)
    ELSE IF srcCol # Len(st.C) - 1
    THEN DelColSwapped(swapCols(st, srcCol, Len(st.C) - 1).st, Len(st.C) - 1)
    ELSE DelColSwapped(st, Len(st.C) - 1)

\* (I1), (I2): every element is listed exactly once by its row and by its
\* column, and every list entry is an index of Elems.
CrossIndexed(st) ==
    /\ \A k \in 0..(Len(st.E) - 1) :
         /\ At(st.E, k).InRow \in 0..(Len(st.R) - 1)
         /\ At(st.E, k).InCol \in 0..(Len(st.C) - 1)
         /\ Occurs(At(st.R, At(st.E, k).InRow).HasElems, k) = 1
         /\ Occurs(At(st.C, At(st.E, k).InCol).HasElems, k) = 1
    /\ \A r \in 1..Len(st.R) : \A h \in Range(st.R[r].HasElems) : h \in 0..(Len(st.E) - 1)
    /\ \A c \in 1..Len(st.C) : \A h \in Range(st.C[c].HasElems) : h \in 0..(Len(st.E) - 1)

\* for i := len(Rows) - 1; i >= 0; i-- { if Rows[i].State == stateDelete { DelRow(i); numDltd++ } }
\* bad: a DelRow left the store not cross-indexed; what the next call reads
\* there is outside the store, and the loop is followed no further.
RECURSIVE delTaggedRowsLoop(_, _, _)
\* if err = DelRow(i); err != nil { return ... }; *numDltd = *numDltd + 1
delTaggedRowsNext(d, i, numDltd) ==
    IF ~d.ok THEN [ok |-> FALSE, bad |-> FALSE, st |-> d.st, numDltd |-> numDltd]
    ELSE delTaggedRowsLoop(d.st, i - 1, numDltd + 1)

delTaggedRowsLoop(st, i, numDltd) ==
    IF ~CrossIndexed(st) THEN [ok |-> TRUE, bad |-> TRUE, st |-> st, numDltd |-> numDltd]
    ELSE IF i < 0 THEN [ok |-> TRUE, bad |-> FALSE, st |-> st, numDltd |-> numDltd]
    ELSE IF At(st.R, i).State = stateDelete
         THEN delTaggedRowsNext(DelRow(st, i), i, numDltd)
         ELSE delTaggedRowsLoop(st, i - 1, numDltd)

delTaggedRows(st, numDltd) == delTaggedRowsLoop(st, Len(st.R) - 1, numDltd)

RECURSIVE delTaggedColsLoop(_, _, _)
\* if err = DelCol(i); err != nil { return ... }; *numDltd = *numDltd + 1
delTaggedColsNext(d, i, numDltd) ==
    IF ~d.ok THEN [ok |-> FALSE, bad |-> FALSE, st |-> d.st, numDltd |-> numDltd]
    ELSE delTaggedColsLoop(d.st, i - 1, numDltd + 1)

delTaggedColsLoop(st, i, numDltd) ==
    IF ~CrossIndexed(st) THEN [ok |-> TRUE, bad |-> TRUE, st |-> st, numDltd |-> numDltd]
    ELSE IF i < 0 THEN [ok |-> TRUE, bad |-> FALSE, st |-> st, numDltd |-> numDltd]
    ELSE IF At(st.C, i).State = stateDelete
         THEN delTaggedColsNext(DelCol(st, i), i, numDltd)
         ELSE delTaggedColsLoop(st, i - 1, numDltd)

\* *numDltd = 0 on entry
delTaggedCols(st) == delTaggedColsLoop(st, Len(st.C) - 1, 0)

-----------------------------------------------------------------------------
(* populating the store *)

MaxRows == 3

MaxCols == 4

MaxElems == 6

InputRow(name, type, lo, up) ==
    [Name |-> name, Type |-> type, RHSlo |-> lo, RHSup |-> up,
     ScaleFactor |-> Q(1), State |-> stateActive, HasElems |-> <<>>]

InputCol(name, type, lo, up) ==
    [Name |-> name, Type |-> type, BndLo |-> lo, BndUp |-> up,
     ScaleFactor |-> Q(1), State |-> stateActive, HasElems |-> <<>>]

InputElem(r, c, v) == [InRow |-> r, InCol |-> c, Value |-> v]

\* Elems = append(Elems, elemItem); Rows[InRow].HasElems = append(.., i); Cols[InCol]...
RECURSIVE Populate(_, _)
Populate(st, cells) ==
    IF cells = <<>> THEN st
    ELSE LET e == Head(cells)
             i == Len(st.E)
         IN  Populate(Store([st.R EXCEPT ![e.InRow + 1].HasElems = Append(@, i)],
                            [st.C EXCEPT ![e.InCol + 1].HasElems = Append(@, i)],
                            Append(st.E, e)),
                      Tail(cells))

\* the cells of a set in column order, the order of the COLUMNS section of a model file
RECURSIVE CellSeq(_)
CellSeq(S) ==
    IF S = {} THEN <<>>
    ELSE LET m == CHOOSE x \in S : \A y \in S : x[2] < y[2] \/ (x[2] = y[2] /\ x[1] <= y[1])
         IN  <<m>> \o CellSeq(S \ {m})

RowName(i) == <<"r0", "r1", "r2", "r3", "r4">>[i + 1]

ColName(j) == <<"x0", "x1", "x2", "x3", "x4">>[j + 1]

\* the subsets of S with at most k members
RECURSIVE UpTo(_, _)
UpTo(S, k) ==
    IF k = 0 \/ S = {} THEN {{}}
    ELSE LET x == CHOOSE y \in S : TRUE
             rest == S \ {x}
         IN  UpTo(rest, k) \cup {T \cup {x} : T \in UpTo(rest, k - 1)}

-----------------------------------------------------------------------------
(* the list of presolve operations *)

psopFreeCol == "FCS"

psopFixedVar == "FXV"

psopRowSingltn == "RSG"

psopNbRow == "NBR"

psopEmptyCol == "MTC"

psopEmptyRow == "MTR"

psVarStatNA == "NA"

psConStatNA == "NA"

\* the zero values of psRow and psCol
psRowZero == [Name |-> "", Type |-> "", Rhs |-> Q(0), ScaleFactor |-> Q(0), Coef |-> <<>>]

psColZero == [Name |-> "", Type |-> "", BndLo |-> Q(0), BndUp |-> Q(0), ScaleFactor |-> Q(0)]

translateRowByPosition(st, oldRow) ==
    [Name |-> oldRow.Name,
     Type |-> oldRow.Type,
     ScaleFactor |-> oldRow.ScaleFactor,
     Rhs |-> IF oldRow.Type \in {"G", "E", "N"} THEN oldRow.RHSlo
             ELSE IF oldRow.Type = "L" THEN oldRow.RHSup
             ELSE Q(0),
     Coef |-> [k \in 1..Len(oldRow.HasElems) |->
                 [Name |-> At(st.C, k - 1).Name,
                  Value |-> At(st.E, oldRow.HasElems[k]).Value]]]

translateRow(st, oldRow) ==
    [Name |-> oldRow.Name,
     Type |-> oldRow.Type,
     ScaleFactor |-> oldRow.ScaleFactor,
     Rhs |-> IF oldRow.Type \in {"G", "E", "N"} THEN oldRow.RHSlo
             ELSE IF oldRow.Type = "L" THEN oldRow.RHSup
             ELSE Q(0),
     Coef |-> [k \in 1..Len(oldRow.HasElems) |->
                 [Name |-> At(st.C, At(st.E, oldRow.HasElems[k]).InCol).Name,
                  Value |-> At(st.E, oldRow.HasElems[k]).Value]]]

translateAllRows(st) == [k \in 1..Len(st.R) |-> translateRow(st, st.R[k])]

\* a kernel works on K = [R, C, E, ps]: the store and psOpList
StoreOf(K) == Store(K.R, K.C, K.E)

WithStore(K, st) == [K EXCEPT !.R = st.R, !.C = st.C, !.E = st.E]

psColOf(col) ==
    [Name |-> col.Name, Type |-> col.Type, BndLo |-> col.BndLo, BndUp |-> col.BndUp,
     ScaleFactor |-> col.ScaleFactor]

updatePsListTwice(K, opType, rowIndex, colIndex) ==
    LET it == [OpType |-> opType, Col |-> psColZero, Row |-> psRowZero]
    IN  [K EXCEPT !.ps = Append(Append(@, it), it)]

updatePsListNoRow(K, opType, rowIndex, colIndex) ==
    [K EXCEPT !.ps = Append(@,
        [OpType |-> opType,
         Col |-> IF colIndex >= 0 /\ colIndex < Len(K.C)
                 THEN psColOf(At(K.C, colIndex)) ELSE psColZero,
         Row |-> psRowZero])]

updatePsList(K, opType, rowIndex, colIndex) ==
    [K EXCEPT !.ps = Append(@,
        [OpType |-> opType,
         Col |-> IF colIndex >= 0 /\ colIndex < Len(K.C)
                 THEN psColOf(At(K.C, colIndex)) ELSE psColZero,
         Row |-> IF rowIndex >= 0 /\ rowIndex < Len(K.R)
                 THEN translateRow(StoreOf(K), At(K.R, rowIndex)) ELSE psRowZero])]

-----------------------------------------------------------------------------
(* the reduction kernels; each returns                                     *)
(*   [K, n: *numDltd, ok: err == nil, bad: store left not cross-indexed,   *)
(*    log: the warnings and errors written]                                *)

TagRow(K, i) == [K EXCEPT !.R[i + 1].State = stateDelete]

TagCol(K, j) == [K EXCEPT !.C[j + 1].State = stateDelete]

\* what a kernel hands back after its deletions d, n0 items having been counted before
Returned(K, d, n0, log) ==
    [K |-> WithStore(K, d.st), n |-> n0 + d.numDltd, ok |-> d.ok, bad |-> d.bad, log |-> log]

\* the common epilogue: delTaggedRows(numDltd)
RowsEpilogue(K, log) == Returned(K, delTaggedRows(StoreOf(K), 0), 0, log)

\* the common epilogue: delTaggedCols(numDltd)
ColsEpilogue(K, log) == Returned(K, delTaggedCols(StoreOf(K)), 0, log)

\* err = delTaggedCols(&colsFound); *numDltd = rowsFound + colsFound
BothEpilogueCols(K, dr, log) ==
    IF ~dr.ok \/ dr.bad THEN Returned(K, dr, 0, log)
    ELSE Returned(K, delTaggedCols(dr.st), dr.numDltd, log)

\* delTaggedRows(&rowsFound), then delTaggedCols(&colsFound)
BothEpilogue(K, log) == BothEpilogueCols(K, delTaggedRows(StoreOf(K), 0), log)

RECURSIVE delNbRowsScan(_, _)
delNbRowsScan(K, i) ==
    IF i >= Len(K.R) THEN K
    ELSE IF At(K.R, i).State # stateActive THEN delNbRowsScan(K, i + 1)
    ELSE IF At(K.R, i).Type = "N"
         THEN delNbRowsScan(updatePsList(TagRow(K, i), psopNbRow, i, 0 - 1), i + 1)
         ELSE delNbRowsScan(K, i + 1)

delNbRows(K) == RowsEpilogue(delNbRowsScan(K, 0), <<>>)

\* the two warnings of delEmptyRows for row
EmptyRowWarnings(row) ==
    (IF row.RHSlo = RNeg(Plinfy) /\ row.RHSup # Q(0)
     THEN <<[lvl |-> "WARN", name |-> row.Name]>> ELSE <<>>)
    \o
    (IF row.RHSlo # Q(0) /\ row.RHSup = Plinfy
     THEN <<[lvl |-> "WARN", name |-> row.Name]>> ELSE <<>>)

RECURSIVE delEmptyRowsScan(_, _, _)
delEmptyRowsScan(K, i, log) ==
    IF i >= Len(K.R) THEN [K |-> K, log |-> log]
    ELSE IF Len(At(K.R, i).HasElems) > 0 \/ At(K.R, i).State # stateActive
         THEN delEmptyRowsScan(K, i + 1, log)
         ELSE delEmptyRowsScan(updatePsList(TagRow(K, i), psopEmptyRow, i, 0 - 1), i + 1,
                               log \o EmptyRowWarnings(At(K.R, i)))

delEmptyRowsScanned(sc) == RowsEpilogue(sc.K, sc.log)

delEmptyRows(K) == delEmptyRowsScanned(delEmptyRowsScan(K, 0, <<>>))

\* the two warnings of delEmptyCols for col
EmptyColWarnings(col) ==
    (IF col.BndLo = RNeg(Plinfy) /\ col.BndUp # Q(0)
     THEN <<[lvl |-> "WARN", name |-> col.Name]>> ELSE <<>>)
    \o
    (IF col.BndLo # Q(0) /\ col.BndUp # Plinfy
     THEN <<[lvl |-> "WARN", name |-> col.Name]>> ELSE <<>>)

RECURSIVE delEmptyColsScan(_, _, _)
delEmptyColsScan(K, i, log) ==
    IF i >= Len(K.C) THEN [K |-> K, log |-> log]
    ELSE IF Len(At(K.C, i).HasElems) > 0 \/ At(K.C, i).State # stateActive
         THEN delEmptyColsScan(K, i + 1, log)
         ELSE delEmptyColsScan(updatePsList(TagCol(K, i), psopEmptyCol, 0 - 1, i), i + 1,
                               log \o EmptyColWarnings(At(K.C, i)))

delEmptyColsScanned(sc) == ColsEpilogue(sc.K, sc.log)

delEmptyCols(K) == delEmptyColsScanned(delEmptyColsScan(K, 0, <<>>))

FixedVarRhsBothSides(row, col, coef) ==
    [row EXCEPT !.RHSlo = RSub(@, RMul(col.BndLo, coef)),
                !.RHSup = RSub(@, RMul(col.BndUp, coef))]

FixedVarRhsAdded(row, col, coef) ==
    [row EXCEPT !.RHSlo = IF @ # RNeg(Plinfy) THEN RAdd(@, RMul(col.BndLo, coef)) ELSE @,
                !.RHSup = IF @ # Plinfy THEN RAdd(@, RMul(col.BndUp, coef)) ELSE @]

\* if Rows[index].RHSlo != -Plinfy { RHSlo -= BndLo * coef }; if RHSup != Plinfy { RHSup -= BndUp * coef }
FixedVarRhs(row, col, coef) ==
    [row EXCEPT !.RHSlo = IF @ # RNeg(Plinfy) THEN RSub(@, RMul(col.BndLo, coef)) ELSE @,
                !.RHSup = IF @ # Plinfy THEN RSub(@, RMul(col.BndUp, coef)) ELSE @]

\* for j := 0; j < len(Cols[i].HasElems); j++ { ... }
RECURSIVE delFixedVarsRows(_, _, _)
delFixedVarsRows(K, i, j) ==
    IF j >= Len(At(K.C, i).HasElems) THEN K
    ELSE LET e == At(K.E, At(At(K.C, i).HasElems, j))
         IN  delFixedVarsRows(
                 [K EXCEPT !.R[e.InRow + 1] = FixedVarRhs(@, At(K.C, i), e.Value)],
                 i, j + 1)

RECURSIVE delFixedVarsScanDeleting(_, _)
delFixedVarsScanDeleting(K, i) ==
    IF i >= Len(K.C) THEN K
    ELSE IF At(K.C, i).State # stateActive THEN delFixedVarsScanDeleting(K, i + 1)
    ELSE IF At(K.C, i).BndLo # At(K.C, i).BndUp THEN delFixedVarsScanDeleting(K, i + 1)
    ELSE LET T == delFixedVarsRows(updatePsList(TagCol(K, i), psopFixedVar, 0 - 1, i), i, 0)
         IN  delFixedVarsScanDeleting(WithStore(T, DelCol(StoreOf(T), i).st), i + 1)

RECURSIVE delFixedVarsScan(_, _)
delFixedVarsScan(K, i) ==
    IF i >= Len(K.C) THEN K
    ELSE IF At(K.C, i).State # stateActive THEN delFixedVarsScan(K, i + 1)
    ELSE IF At(K.C, i).BndLo # At(K.C, i).BndUp THEN delFixedVarsScan(K, i + 1)
    ELSE delFixedVarsScan(
             delFixedVarsRows(updatePsList(TagCol(K, i), psopFixedVar, 0 - 1, i), i, 0),
             i + 1)

delFixedVars(K) == ColsEpilogue(delFixedVarsScan(K, 0), <<>>)

RECURSIVE delFreeColSinglsScan(_, _, _)
delFreeColSinglsScan(K, objRow, i) ==
    IF i >= Len(K.C) THEN K
    ELSE IF Len(At(K.C, i).HasElems) # 1 THEN delFreeColSinglsScan(K, objRow, i + 1)
    ELSE IF At(K.C, i).BndLo # RNeg(Plinfy) \/ At(K.C, i).BndUp # Plinfy
         THEN delFreeColSinglsScan(K, objRow, i + 1)
    ELSE LET rowIndex == At(K.E, At(At(K.C, i).HasElems, 0)).InRow
         IN  IF rowIndex = objRow THEN delFreeColSinglsScan(K, objRow, i + 1)
             ELSE delFreeColSinglsScan(
                      updatePsList(TagRow(TagCol(K, i), rowIndex), psopFreeCol, rowIndex, i),
                      objRow, i + 1)

delFreeColSingls(K, objRow) == BothEpilogue(delFreeColSinglsScan(K, objRow, 0), <<>>)

SingletonBoundTimes(rhs, coef) == RMul(rhs, coef)

\* newBound = Rows[i].RHSlo / coef
SingletonBound(rhs, coef) == RDiv(rhs, coef)

\* switch Rows[i].Type: the new bounds of the column of a singleton row
SingletonPin(col, row, coef) ==
    IF row.Type = "G"
    THEN [col |-> [col EXCEPT !.BndLo = SingletonBound(row.RHSlo, coef)],
          newBound |-> SingletonBound(row.RHSlo, coef)]
    ELSE IF row.Type = "L"
    THEN [col |-> [col EXCEPT !.BndUp = SingletonBound(row.RHSup, coef)],
          newBound |-> SingletonBound(row.RHSup, coef)]
    ELSE IF row.Type \in {"E", "N"}
    THEN [col |-> [col EXCEPT !.BndLo = SingletonBound(row.RHSlo, coef),
                              !.BndUp = SingletonBound(row.RHSlo, coef)],
          newBound |-> SingletonBound(row.RHSlo, coef)]
    ELSE [col |-> col, newBound |-> Q(0)]

SingletonRhsBothSides(row, newBound, coef) ==
    [row EXCEPT !.RHSlo = RSub(@, RMul(newBound, coef)),
                !.RHSup = RSub(@, RMul(newBound, coef))]

\* if RHSlo != -Plinfy { RHSlo -= newBound * coef }; if RHSup != Plinfy { RHSup -= newBound * coef }
SingletonRhs(row, newBound, coef) ==
    [row EXCEPT !.RHSlo = IF @ # RNeg(Plinfy) THEN RSub(@, RMul(newBound, coef)) ELSE @,
                !.RHSup = IF @ # Plinfy THEN RSub(@, RMul(newBound, coef)) ELSE @]

\* for j := 0; j < len(Cols[colIndex].HasElems); j++ { if i == rowIndex { continue } ... }
RECURSIVE delRowSingletonsRows(_, _, _, _, _)
delRowSingletonsRows(K, i, colIndex, newBound, j) ==
    IF j >= Len(At(K.C, colIndex).HasElems) THEN K
    ELSE LET e == At(K.E, At(At(K.C, colIndex).HasElems, j))
         IN  IF e.InRow = i THEN delRowSingletonsRows(K, i, colIndex, newBound, j + 1)
             ELSE delRowSingletonsRows(
                      [K EXCEPT !.R[e.InRow + 1] = SingletonRhs(@, newBound, e.Value)],
                      i, colIndex, newBound, j + 1)

\* the bounds of the column, the RHS of its other rows, the two tags and the list entry
delRowSingletonsPinned(K, i, colIndex, pin) ==
    updatePsList(
        TagCol(TagRow(delRowSingletonsRows([K EXCEPT !.C[colIndex + 1] = pin.col],
                                           i, colIndex, pin.newBound, 0),
                      i),
               colIndex),
        psopRowSingltn, i, colIndex)

delRowSingletonsAt(K, i, colIndex, coef) ==
    delRowSingletonsPinned(K, i, colIndex,
                           SingletonPin(At(K.C, colIndex), At(K.R, i), coef))

RECURSIVE delRowSingletonsScanAnySense(_, _)
delRowSingletonsScanAnySense(K, i) ==
    IF i >= Len(K.R) THEN [K |-> K, zero |-> FALSE, log |-> <<>>]
    ELSE IF At(K.R, i).State # stateActive THEN delRowSingletonsScanAnySense(K, i + 1)
    ELSE IF Len(At(K.R, i).HasElems) # 1 THEN delRowSingletonsScanAnySense(K, i + 1)
    ELSE IF At(K.E, At(At(K.R, i).HasElems, 0)).Value = Q(0)
         THEN [K |-> K, zero |-> TRUE, log |-> <<[lvl |-> "ERR", name |-> At(K.R, i).Name]>>]
         ELSE delRowSingletonsScanAnySense(
                  delRowSingletonsAt(K, i, At(K.E, At(At(K.R, i).HasElems, 0)).InCol,
                                     At(K.E, At(At(K.R, i).HasElems, 0)).Value),
                  i + 1)

\* the scan of delRowSingletons; zero: it met a zero coefficient and returned
RECURSIVE delRowSingletonsScan(_, _)
delRowSingletonsScan(K, i) ==
    IF i >= Len(K.R) THEN [K |-> K, zero |-> FALSE, log |-> <<>>]
    ELSE IF At(K.R, i).State # stateActive THEN delRowSingletonsScan(K, i + 1)
    ELSE IF Len(At(K.R, i).HasElems) # 1 THEN delRowSingletonsScan(K, i + 1)
    ELSE IF At(K.R, i).Type # "E" THEN delRowSingletonsScan(K, i + 1)
    ELSE IF At(K.E, At(At(K.R, i).HasElems, 0)).Value = Q(0)
         THEN [K |-> K, zero |-> TRUE, log |-> <<[lvl |-> "ERR", name |-> At(K.R, i).Name]>>]
         ELSE delRowSingletonsScan(
                  delRowSingletonsAt(K, i, At(K.E, At(At(K.R, i).HasElems, 0)).InCol,
                                     At(K.E, At(At(K.R, i).HasElems, 0)).Value),
                  i + 1)

\* after "return nil" on a zero coefficient nothing is deleted
delRowSingletonsScanned(sc) ==
    IF sc.zero
    THEN [K |-> sc.K, n |-> 0, ok |-> TRUE, bad |-> FALSE, log |-> sc.log]
    ELSE BothEpilogue(sc.K, sc.log)

delRowSingletons(K) == delRowSingletonsScanned(delRowSingletonsScan(K, 0))

-----------------------------------------------------------------------------
(* TightenBounds: implied bounds of the variables of each row, then the    *)
(* rows whose implied interval lies inside the declared one become "N".    *)
(* A sum of terms is [inf, v]: inf when one of its terms is unbounded.     *)

Fin(v) == [inf |-> FALSE, v |-> v]

Unbounded == [inf |-> TRUE, v |-> Q(0)]

ExtAdd(a, b) == IF a.inf \/ b.inf THEN Unbounded ELSE Fin(RAdd(a.v, b.v))

\* the least value of coef * x over the bounds of col
TermLo(col, coef) ==
    IF coef[1] > 0
    THEN IF col.BndLo = RNeg(Plinfy) THEN Unbounded ELSE Fin(RMul(coef, col.BndLo))
    ELSE IF coef[1] < 0
    THEN IF col.BndUp = Plinfy THEN Unbounded ELSE Fin(RMul(coef, col.BndUp))
    ELSE Fin(Q(0))

\* the greatest value of coef * x over the bounds of col
TermUp(col, coef) ==
    IF coef[1] > 0
    THEN IF col.BndUp = Plinfy THEN Unbounded ELSE Fin(RMul(coef, col.BndUp))
    ELSE IF coef[1] < 0
    THEN IF col.BndLo = RNeg(Plinfy) THEN Unbounded ELSE Fin(RMul(coef, col.BndLo))
    ELSE Fin(Q(0))

\* the sum of the least (up = FALSE) or greatest (up = TRUE) terms of the
\* elements list[k..], leaving out position skip
RECURSIVE Activity(_, _, _, _, _)
Activity(K, list, k, skip, up) ==
    IF k > Len(list) THEN Fin(Q(0))
    ELSE ExtAdd(IF k = skip THEN Fin(Q(0))
                ELSE IF up THEN TermUp(At(K.C, At(K.E, list[k]).InCol), At(K.E, list[k]).Value)
                ELSE TermLo(At(K.C, At(K.E, list[k]).InCol), At(K.E, list[k]).Value),
                Activity(K, list, k + 1, skip, up))

\* the bounds row i implies on the variable of its k-th element
ExtDiv(t, a) == IF t.inf THEN Unbounded ELSE Fin(RDiv(t.v, a))

\* the bounds of x from tLo <= a * x <= tUp
ImpliedTerm(a, tLo, tUp) ==
    IF a[1] > 0 THEN [lo |-> ExtDiv(tLo, a), up |-> ExtDiv(tUp, a)]
    ELSE IF a[1] < 0 THEN [lo |-> ExtDiv(tUp, a), up |-> ExtDiv(tLo, a)]
    ELSE [lo |-> Unbounded, up |-> Unbounded]

\* the bounds of x from RHSlo <= a * x + others <= RHSup
ImpliedOthers(row, a, othLo, othUp) ==
    ImpliedTerm(a,
                IF row.RHSlo = RNeg(Plinfy) \/ othUp.inf THEN Unbounded
                ELSE Fin(RSub(row.RHSlo, othUp.v)),
                IF row.RHSup = Plinfy \/ othLo.inf THEN Unbounded
                ELSE Fin(RSub(row.RHSup, othLo.v)))

ImpliedBounds(K, i, k) ==
    ImpliedOthers(At(K.R, i), At(K.E, At(K.R, i).HasElems[k]).Value,
                  Activity(K, At(K.R, i).HasElems, 1, k, FALSE),
                  Activity(K, At(K.R, i).HasElems, 1, k, TRUE))

TightenCol(col, b) ==
    [col EXCEPT !.BndLo = IF ~b.lo.inf /\ RLt(@, b.lo.v) THEN b.lo.v ELSE @,
                !.BndUp = IF ~b.up.inf /\ RLt(b.up.v, @) THEN b.up.v ELSE @]

RECURSIVE TightenRow(_, _, _)
TightenRow(K, i, k) ==
    IF k > Len(At(K.R, i).HasElems) THEN K
    ELSE TightenRow([K EXCEPT !.C[At(K.E, At(K.R, i).HasElems[k]).InCol + 1] =
                                  TightenCol(@, ImpliedBounds(K, i, k))],
                    i, k + 1)

RECURSIVE TightenPass(_, _)
TightenPass(K, i) ==
    IF i >= Len(K.R) THEN K
    ELSE IF At(K.R, i).State # stateActive \/ At(K.R, i).Type = "N"
         THEN TightenPass(K, i + 1)
         ELSE TightenPass(TightenRow(K, i, 1), i + 1)

InconsistentBounds(K) == \E j \in 1..Len(K.C) : RLt(K.C[j].BndUp, K.C[j].BndLo)

\* the implied interval of the row lies inside its declared interval
Inside(row, lo, up) ==
    /\ row.RHSlo = RNeg(Plinfy) \/ (~lo.inf /\ RLe(row.RHSlo, lo.v))
    /\ row.RHSup = Plinfy \/ (~up.inf /\ RLe(up.v, row.RHSup))

Nonbinding(K, row) ==
    Inside(row, Activity(K, row.HasElems, 1, 0, FALSE), Activity(K, row.HasElems, 1, 0, TRUE))

MarkNonbinding(K) ==
    [K EXCEPT !.R = [i \in 1..Len(K.R) |->
        IF K.R[i].State = stateActive /\ K.R[i].Type # "N" /\ Nonbinding(K, K.R[i])
        THEN [K.R[i] EXCEPT !.Type = "N"] ELSE K.R[i]]]

RECURSIVE TightenLoop(_, _, _)
\* after a pass that turned K into K1
TightenPassed(K, K1, maxIter, iter) ==
    IF InconsistentBounds(K1) THEN [K |-> K1, ok |-> FALSE, iter |-> iter + 1]
    ELSE IF K1 = K THEN [K |-> K, ok |-> TRUE, iter |-> iter + 1]
    ELSE TightenLoop(K1, maxIter, iter + 1)

TightenLoop(K, maxIter, iter) ==
    IF iter >= maxIter THEN [K |-> K, ok |-> TRUE, iter |-> iter]
    ELSE TightenPassed(K, TightenPass(K, 0), maxIter, iter)

TightenMarked(t) == IF t.ok THEN [t EXCEPT !.K = MarkNonbinding(t.K)] ELSE t

TightenBounds(K, maxIter) == TightenMarked(TightenLoop(K, maxIter, 0))

-----------------------------------------------------------------------------
(* the state outside the store *)

NoCtl == [MaxIter |-> 0, DelRowNonbinding |-> FALSE, DelRowSingleton |-> FALSE,
          DelColSingleton |-> FALSE, DelFixedVars |-> FALSE]

NoRun == [i |-> 0]

\* psRslt and the locals of CplexSolveProb that outlive the call of ReduceMatrix
NoSol ==
    [stage |-> "none", solved |-> FALSE, psRows |-> <<>>, origObjFunc |-> psRowZero,
     colScaleMap |-> <<>>, rows |-> {}, cols |-> {}, numRows |-> 0, numCols |-> 0,
     numElem |-> 0, VarMap |-> <<>>, ConMap |-> <<>>, ObjVal |-> Q(0), RowsDel |-> 0,
     ColsDel |-> 0, ElemDel |-> 0, err |-> "", objRow |-> 0 - 1,
     inRows |-> <<>>, inCols |-> <<>>, written |-> {}]

\* what the last call was: its name, arguments and whether it returned nil
Op(name, a, b, ok) == [op |-> name, a |-> a, b |-> b, ok |-> ok, note |-> {}]

Noted(name, a, b, ok, note) == [op |-> name, a |-> a, b |-> b, ok |-> ok, note |-> note]

-----------------------------------------------------------------------------
(* SpecPrim: the delete primitives called in any order, with any index.  A  *)
(* call on a store that is no longer cross-indexed reads Elems out of      *)
(* range; the model follows a run up to such a store and no further.       *)

PrimStore(n, m, S) ==
    Populate(Store([i \in 1..n |-> InputRow(RowName(i - 1), "E", Q(0), Q(0))],
                   [j \in 1..m |-> InputCol(ColName(j - 1), "R", Q(0), Plinfy)],
                   <<>>),
             [k \in 1..Cardinality(S) |->
                 LET cell == CellSeq(S)[k]
                 IN  InputElem(cell[1], cell[2], Q(1 + cell[1] + 10 * cell[2]))])

InitPrim ==
    \E n \in 1..MaxRows, m \in 1..MaxCols :
      \E S \in UpTo((0..(n - 1)) \X (0..(m - 1)), MaxElems) :
        LET st == PrimStore(n, m, S)
        IN  /\ Rows = st.R
            /\ Cols = st.C
            /\ Elems = st.E
            /\ ObjRow \in {0 - 1, 0}
            /\ psOpList = <<>>
            /\ pc = "prim"
            /\ psc = NoCtl
            /\ run = NoRun
            /\ sol = NoSol
            /\ last = Op("init", 0, 0, TRUE)

Cur == Store(Rows, Cols, Elems)

SetStore(st) ==
    /\ Rows' = st.R
    /\ Cols' = st.C
    /\ Elems' = st.E

PrimFrame == UNCHANGED <<ObjRow, psOpList, pc, psc, run, sol>>

CallSwapRows ==
    /\ pc = "prim"
    /\ CrossIndexed(Cur)
    /\ \E i \in (0 - 1)..Len(Rows), j \in (0 - 1)..Len(Rows) :
         LET r == swapRows(Cur, i, j)
         IN  /\ SetStore(r.st)
             /\ last' = Op("swapRows", i, j, r.ok)
    /\ PrimFrame

CallSwapCols ==
    /\ pc = "prim"
    /\ CrossIndexed(Cur)
    /\ \E i \in (0 - 1)..Len(Cols), j \in (0 - 1)..Len(Cols) :
         LET r == swapCols(Cur, i, j)
         IN  /\ SetStore(r.st)
             /\ last' = Op("swapCols", i, j, r.ok)
    /\ PrimFrame

\* the row (column) at index i lists the tail element of Elems, and not as its first
OwnsTail(list, E) ==
    /\ Len(list) >= 2
    /\ \E k \in 2..Len(list) : list[k] = Len(E) - 1

CallDelRow ==
    /\ pc = "prim"
    /\ CrossIndexed(Cur)
    /\ \E i \in (0 - 1)..Len(Rows) :
         LET r == DelRow(Cur, i)
         IN  /\ SetStore(r.st)
             /\ last' = Noted("DelRow", i, 0, r.ok,
                              IF r.ok /\ OwnsTail(At(Rows, i).HasElems, Elems)
                              THEN {"tail"} ELSE {})
    /\ PrimFrame

CallDelCol ==
    /\ pc = "prim"
    /\ CrossIndexed(Cur)
    /\ \E j \in (0 - 1)..Len(Cols) :
         LET r == DelCol(Cur, j)
         IN  /\ SetStore(r.st)
             /\ last' = Noted("DelCol", j, 0, r.ok,
                              IF r.ok /\ OwnsTail(At(Cols, j).HasElems, Elems)
                              THEN {"tail"} ELSE {})
    /\ PrimFrame

NextPrim == CallDelRow \/ CallDelCol

SpecPrim == InitPrim /\ [][NextPrim]_vars

\* the four primitives called in any order, with any indices
NextSwap == CallSwapRows \/ CallSwapCols \/ CallDelRow \/ CallDelCol

\* the stores of SpecSwap have at most MaxSwap rows and MaxSwap columns
MaxSwap == 2

InitSwap ==
    \E n \in 1..MaxSwap, m \in 1..MaxSwap :
      \E S \in UpTo((0..(n - 1)) \X (0..(m - 1)), MaxElems) :
        LET st == PrimStore(n, m, S)
        IN  /\ Rows = st.R
            /\ Cols = st.C
            /\ Elems = st.E
            /\ ObjRow \in {0 - 1, 0}
            /\ psOpList = <<>>
            /\ pc = "prim"
            /\ psc = NoCtl
            /\ run = NoRun
            /\ sol = NoSol
            /\ last = Op("init", 0, 0, TRUE)

SpecSwap == InitSwap /\ [][NextSwap]_vars

-----------------------------------------------------------------------------
(* properties of the primitives *)

\* C1: after every DelRow / DelCol call of any sequence, with valid or
\* out-of-range indices, every element is listed exactly once by the row and
\* by the column it names, and no list holds an index at or beyond len(Elems).
C1_CrossIndexKept == CrossIndexed(Cur)

\* a delete that had to relocate the tail of Elems, after an earlier delete
C1_Witness ==
    /\ last.op \in {"DelRow", "DelCol"}
    /\ last.ok
    /\ "tail" \in last.note
    /\ Len(Elems) >= 1
    /\ Len(Rows) < MaxRows
    /\ Len(Cols) < MaxCols

RowNames(R) == {R[k].Name : k \in 1..Len(R)}

ColNames(C) == {C[k].Name : k \in 1..Len(C)}

NameAt(s, i) == IF i \in 0..(Len(s) - 1) THEN At(s, i).Name ELSE "out of range"

Triples(R, C, E) ==
    {<<NameAt(R, E[k].InRow), NameAt(C, E[k].InCol), E[k].Value>> : k \in 1..Len(E)}

Plain(x) == [x EXCEPT !.HasElems = <<>>]

DelRowExact(i) ==
    LET name == At(Rows, i).Name
    IN  /\ Len(Rows') = Len(Rows) - 1
        /\ RowNames(Rows') = RowNames(Rows) \ {name}
        /\ \A k \in 1..Len(Rows') : \E j \in 1..Len(Rows) : Plain(Rows'[k]) = Plain(Rows[j])
        /\ [k \in 1..Len(Cols') |-> Plain(Cols'[k])] = [k \in 1..Len(Cols) |-> Plain(Cols[k])]
        /\ Len(Elems') = Len(Elems) - Len(At(Rows, i).HasElems)
        /\ Triples(Rows', Cols', Elems')
             = {t \in Triples(Rows, Cols, Elems) : t[1] # name}

DelColExact(j) ==
    LET name == At(Cols, j).Name
    IN  /\ Len(Cols') = Len(Cols) - 1
        /\ ColNames(Cols') = ColNames(Cols) \ {name}
        /\ \A k \in 1..Len(Cols') : \E i \in 1..Len(Cols) : Plain(Cols'[k]) = Plain(Cols[i])
        /\ [k \in 1..Len(Rows') |-> Plain(Rows'[k])] = [k \in 1..Len(Rows) |-> Plain(Rows[k])]
        /\ Len(Elems') = Len(Elems) - Len(At(Cols, j).HasElems)
        /\ Triples(Rows', Cols', Elems')
             = {t \in Triples(Rows, Cols, Elems) : t[2] # name}

\* C2: DelRow(i) with a valid i removes exactly the row at index i and exactly
\* its elements (the other rows, all columns and the (row, column, value)
\* triples of the other elements stay), also when the row owns the tail of
\* Elems; DelCol(j) does the same for columns.
C2_DeleteExact ==
    [][/\ (last'.op = "DelRow" /\ last'.ok) => DelRowExact(last'.a)
       /\ (last'.op = "DelCol" /\ last'.ok) => DelColExact(last'.a)]_vars

\* a row with several elements, the tail of Elems among them, was deleted
\* and other elements remain
C2_Witness ==
    /\ last.op = "DelRow"
    /\ last.ok
    /\ "tail" \in last.note
    /\ Len(Elems) >= 2

\* C10: ObjRow is -1 or a valid row index after any sequence of the
\* primitives; the primitives keep it so themselves.
C10_ObjRowValid == ObjRow = 0 - 1 \/ (0 <= ObjRow /\ ObjRow < Len(Rows))

-----------------------------------------------------------------------------
(* the models ReduceMatrix and CplexSolveProb are run on *)

NRows == 3

NCols == 2

MaxIterBound == 3

\* a row as TransFromGpx builds it from its sense and RHS (the objective: "N", 0, 0)
SenseRow(name, sense, rhs, rng) ==
    IF sense = "L" THEN InputRow(name, "L", RNeg(Plinfy), rhs)
    ELSE IF sense = "E" THEN InputRow(name, "E", rhs, rhs)
    ELSE IF sense = "G" THEN InputRow(name, "G", rhs, Plinfy)
    ELSE IF sense = "R" THEN InputRow(name, "R", rhs, RAdd(rhs, rng))
    ELSE InputRow(name, "N", Q(0), Q(0))

FreeCol(name) == InputCol(name, "R", RNeg(Plinfy), Plinfy)

PosCol(name) == InputCol(name, "R", Q(0), Plinfy)

FixCol(name, v) == InputCol(name, "R", v, v)

KindCol(name, kind) ==
    IF kind = "free" THEN FreeCol(name)
    ELSE IF kind = "fix" THEN FixCol(name, Q(4))
    ELSE PosCol(name)

\* the senses of the generated rows, by index
Typing(t, i) ==
    IF t = 1 THEN <<"E", "G", "L", "E", "G">>[i + 1]
    ELSE <<"E", "E", "G", "L", "E">>[i + 1]

\* the coefficient of the generated element of row r in column c
GenCoef(r, c) ==
    <<<<2, 1, 3, 1, 2>>, <<0 - 1, 1, 2, 1, 3>>, <<1, 2, 1, 3, 1>>, <<3, 1, 1, 2, 1>>>>[c + 1][r + 1]

GenStore(S, t, obj, kinds) ==
    Populate(Store([i \in 1..NRows |->
                       IF i - 1 = obj THEN SenseRow(RowName(i - 1), "N", Q(0), Q(0))
                       ELSE SenseRow(RowName(i - 1), Typing(t, i - 1), Q(7 - i), Q(0))],
                   [j \in 1..NCols |-> KindCol(ColName(j - 1), kinds[j])],
                   <<>>),
             [k \in 1..Cardinality(S) |->
                 LET cell == CellSeq(S)[k]
                 IN  InputElem(cell[1], cell[2], Q(GenCoef(cell[1], cell[2])))])

GenModels ==
    {[st |-> GenStore(S, t, obj, kinds), obj |-> obj] :
        S \in SUBSET ((0..(NRows - 1)) \X (0..(NCols - 1))),
        t \in {1, 2},
        obj \in {0 - 1, 0, NRows - 1},
        kinds \in [1..NCols -> {"free", "pos", "fix"}]}

\* minimize x0 + x1 subject to 2 x0 = 6, x0 + x1 >= 5, x0, x1 >= 0
SingletonRowModel ==
    [st |-> Populate(Store(<<SenseRow("r0", "E", Q(6), Q(0)), SenseRow("r1", "G", Q(5), Q(0)),
                             SenseRow("r2", "N", Q(0), Q(0))>>,
                           <<PosCol("x0"), PosCol("x1")>>, <<>>),
                     <<InputElem(0, 0, Q(2)), InputElem(1, 0, Q(1)), InputElem(1, 1, Q(1)),
                       InputElem(2, 0, Q(1)), InputElem(2, 1, Q(1))>>),
     obj |-> 2]

\* x2 in [4, 4] with coefficients 2 and -1 in rows of RHS 10 and 3
FixedVarModel ==
    [st |-> Populate(Store(<<SenseRow("r0", "L", Q(10), Q(0)), SenseRow("r1", "G", Q(3), Q(0)),
                             SenseRow("r2", "N", Q(0), Q(0))>>,
                           <<PosCol("x0"), PosCol("x1"), FixCol("x2", Q(4))>>, <<>>),
                     <<InputElem(0, 0, Q(1)), InputElem(0, 2, Q(2)), InputElem(1, 1, Q(1)),
                       InputElem(1, 2, Q(0 - 1)), InputElem(2, 0, Q(1)), InputElem(2, 1, Q(1))>>),
     obj |-> 2]

\* minimize x1 subject to x0 + x1 = 7, x1 >= 0, x0 free
FreeColModel ==
    [st |-> Populate(Store(<<SenseRow("r0", "N", Q(0), Q(0)), SenseRow("r1", "E", Q(7), Q(0))>>,
                           <<FreeCol("x0"), PosCol("x1")>>, <<>>),
                     <<InputElem(1, 0, Q(1)), InputElem(1, 1, Q(1)), InputElem(0, 1, Q(1))>>),
     obj |-> 0]

\* minimize x0 subject to x0 + x1 = 7, x1 >= 0, x0 free
FreeObjColModel ==
    [st |-> Populate(Store(<<SenseRow("r0", "N", Q(0), Q(0)), SenseRow("r1", "E", Q(7), Q(0))>>,
                           <<FreeCol("x0"), PosCol("x1")>>, <<>>),
                     <<InputElem(0, 0, Q(1)), InputElem(1, 0, Q(1)), InputElem(1, 1, Q(1))>>),
     obj |-> 0]

\* minimize x2 subject to x0 + x1 + x2 = 7, x2 >= 0, x0 and x1 free
TwoFreeColsModel ==
    [st |-> Populate(Store(<<SenseRow("r0", "N", Q(0), Q(0)), SenseRow("r1", "E", Q(7), Q(0))>>,
                           <<FreeCol("x0"), FreeCol("x1"), PosCol("x2")>>, <<>>),
                     <<InputElem(1, 0, Q(1)), InputElem(1, 1, Q(1)), InputElem(1, 2, Q(1)),
                       InputElem(0, 2, Q(1))>>),
     obj |-> 0]

\* an empty row with RHS range [0, 0], one with [0, 5], and a second row of sense N
EmptyRowModel ==
    [st |-> Populate(Store(<<SenseRow("r0", "N", Q(0), Q(0)), SenseRow("r1", "R", Q(0), Q(0)),
                             SenseRow("r2", "R", Q(0), Q(5)), SenseRow("r3", "N", Q(0), Q(0)),
                             SenseRow("r4", "G", Q(1), Q(0))>>,
                           <<PosCol("x0"), PosCol("x1")>>, <<>>),
                     <<InputElem(0, 0, Q(1)), InputElem(3, 0, Q(1)), InputElem(3, 1, Q(2)),
                       InputElem(4, 0, Q(1)), InputElem(4, 1, Q(1))>>),
     obj |-> 0]

\* a singleton row 3 x0 = 6 followed by a singleton row whose coefficient is zero
ZeroCoefModel ==
    [st |-> Populate(Store(<<SenseRow("r0", "N", Q(0), Q(0)), SenseRow("r1", "E", Q(6), Q(0)),
                             SenseRow("r2", "E", Q(5), Q(0)), SenseRow("r3", "G", Q(1), Q(0))>>,
                           <<PosCol("x0"), PosCol("x1")>>, <<>>),
                     <<InputElem(0, 0, Q(1)), InputElem(0, 1, Q(1)), InputElem(1, 0, Q(3)),
                       InputElem(2, 1, Q(0)), InputElem(3, 0, Q(1)), InputElem(3, 1, Q(1))>>),
     obj |-> 0]

\* minimize x3 subject to x0 + x1 + x2 = 7, x3 >= 1, x2 and x3 >= 0, x0 and x1 free:
\* x2 is left without elements once the row of x0 and x1 has gone
LateEntryModel ==
    [st |-> Populate(Store(<<SenseRow("r0", "N", Q(0), Q(0)), SenseRow("r1", "E", Q(7), Q(0)),
                             SenseRow("r2", "G", Q(1), Q(0))>>,
                           <<FreeCol("x0"), FreeCol("x1"), PosCol("x2"), PosCol("x3")>>, <<>>),
                     <<InputElem(1, 0, Q(1)), InputElem(1, 1, Q(1)), InputElem(1, 2, Q(1)),
                       InputElem(0, 3, Q(1)), InputElem(2, 3, Q(1))>>),
     obj |-> 0]

\* minimize x0 + 2 x1 subject to 2 x0 = 6, x0 + x1 + x2 >= 5, x2 in [4, 4], after rows
\* and columns were given scale factors: 2 for the objective, 3 for the first row,
\* 5 for x0 and 7 for x2
ScaledStore(st) ==
    [st EXCEPT !.R[1].ScaleFactor = Q(2), !.R[2].ScaleFactor = Q(3),
               !.C[1].ScaleFactor = Q(5), !.C[3].ScaleFactor = Q(7)]

ScaledModel ==
    [st |-> ScaledStore(
                Populate(Store(<<SenseRow("r0", "N", Q(0), Q(0)), SenseRow("r1", "E", Q(6), Q(0)),
                                 SenseRow("r2", "G", Q(5), Q(0))>>,
                               <<PosCol("x0"), PosCol("x1"), FixCol("x2", Q(4))>>, <<>>),
                         <<InputElem(0, 0, Q(1)), InputElem(0, 1, Q(2)), InputElem(1, 0, Q(2)),
                           InputElem(2, 0, Q(1)), InputElem(2, 1, Q(1)),
                           InputElem(2, 2, Q(1))>>)),
     obj |-> 0]

\* minimize x0 + x1 subject to 2 <= x0 + x1 <= 5, x0 >= 1
RangeRowModel ==
    [st |-> Populate(Store(<<SenseRow("r0", "N", Q(0), Q(0)), SenseRow("r1", "R", Q(2), Q(3)),
                             SenseRow("r2", "G", Q(1), Q(0))>>,
                           <<PosCol("x0"), PosCol("x1")>>, <<>>),
                     <<InputElem(0, 0, Q(1)), InputElem(0, 1, Q(1)), InputElem(1, 0, Q(1)),
                       InputElem(1, 1, Q(1)), InputElem(2, 0, Q(1))>>),
     obj |-> 0]

\* x0 - x1 >= 1 and x1 - x0 >= 0 with x0 and x1 in [0, 2 * MaxIterBound + 1], and
\* x2 = 4 for a fixed x2: every pass of bound tightening narrows the two
\* intervals by one at each end, so that their bounds cross in the first pass
\* of the second sweep, after the first sweep has removed x2 and its row
SlowTightenModel ==
    [st |-> Populate(Store(<<SenseRow("r0", "G", Q(1), Q(0)), SenseRow("r1", "G", Q(0), Q(0)),
                             SenseRow("r2", "E", Q(4), Q(0))>>,
                           <<InputCol("x0", "R", Q(0), Q(2 * MaxIterBound + 1)),
                             InputCol("x1", "R", Q(0), Q(2 * MaxIterBound + 1)),
                             FixCol("x2", Q(4))>>, <<>>),
                     <<InputElem(0, 0, Q(1)), InputElem(0, 1, Q(0 - 1)), InputElem(1, 0, Q(0 - 1)),
                       InputElem(1, 1, Q(1)), InputElem(2, 2, Q(1))>>),
     obj |-> 0 - 1]

\* minimize x1 subject to 2 <= x0 + x1 <= 5, x1 >= 0, x0 free
RangeFreeColModel ==
    [st |-> Populate(Store(<<SenseRow("r0", "N", Q(0), Q(0)), SenseRow("r1", "R", Q(2), Q(3))>>,
                           <<FreeCol("x0"), PosCol("x1")>>, <<>>),
                     <<InputElem(0, 1, Q(1)), InputElem(1, 0, Q(1)), InputElem(1, 1, Q(1))>>),
     obj |-> 0]

ScenarioModels ==
    {SingletonRowModel, FixedVarModel, FreeColModel, FreeObjColModel,
     TwoFreeColsModel, EmptyRowModel,
     ZeroCoefModel, LateEntryModel, ScaledModel, RangeRowModel, SlowTightenModel,
     RangeFreeColModel}

Ctl(maxIter, nb, rsg, fcs, fxv, solver) ==
    [MaxIter |-> maxIter, DelRowNonbinding |-> nb, DelRowSingleton |-> rsg,
     DelColSingleton |-> fcs, DelFixedVars |-> fxv, RunSolver |-> solver,
     FileInMps |-> "", FileOutSoln |-> "", FileOutMpsRdcd |-> "", FileOutPsop |-> ""]

\* the file names of the control records that name files
FileNames == {"", "a.mps", "b.out"}

\* control records with file names: row-singleton removal, one sweep
FileCtls ==
    {[Ctl(1, FALSE, TRUE, FALSE, FALSE, solver) EXCEPT
          !.FileInMps = fin, !.FileOutSoln = fsol, !.FileOutMpsRdcd = fmps, !.FileOutPsop = fps] :
        solver \in BOOLEAN, fin \in {"", "a.mps"}, fsol \in FileNames, fmps \in FileNames,
        fps \in FileNames}

Ctls(solver) ==
    {Ctl(MaxIterBound, nb, rsg, fcs, fxv, solver) :
        nb \in BOOLEAN, rsg \in BOOLEAN, fcs \in BOOLEAN, fxv \in BOOLEAN}

ScenarioCtls(solver) ==
    {Ctl(mi, nb, rsg, fcs, fxv, solver) :
        mi \in {0 - 1, 0, 1, MaxIterBound},
        nb \in BOOLEAN, rsg \in BOOLEAN, fcs \in BOOLEAN, fxv \in BOOLEAN}

-----------------------------------------------------------------------------
(* ReduceMatrix, one action per kernel call of a sweep.                    *)
(*   pc:  "idle" | "nb" | "fx" | "rsg" | "fcs" | "mtr" | "mtc" | "reduced" *)
(*        | "done" | "corrupt"                                             *)
(*   run: the locals of ReduceMatrix (i, itemsInPass, numChanges), how the *)
(*        call ended (exit), what the store held when the call (rn) and    *)
(*        the sweep (sw) began, and what it held before and after the last *)
(*        sweep that ran to its end (fin)                                  *)

MaxRuns == 2

KNow == [R |-> Rows, C |-> Cols, E |-> Elems, ps |-> psOpList]

SetK(K) ==
    /\ Rows' = K.R
    /\ Cols' = K.C
    /\ Elems' = K.E
    /\ psOpList' = K.ps

Snap(K) ==
    [rows |-> RowNames(K.R), cols |-> ColNames(K.C), nrows |-> Len(K.R), ncols |-> Len(K.C),
     elems |-> Len(K.E), ps |-> Len(K.ps)]

IdleRun ==
    [runs |-> 0, i |-> 0, itemsInPass |-> 0, numChanges |-> 0, exit |-> "", prevExit |-> "",
     caller |-> "", sweeps |-> 0, rn |-> Snap([R |-> <<>>, C |-> <<>>, E |-> <<>>, ps |-> <<>>]),
     sw |-> Snap([R |-> <<>>, C |-> <<>>, E |-> <<>>, ps |-> <<>>]),
     fin |-> [pre |-> Snap([R |-> <<>>, C |-> <<>>, E |-> <<>>, ps |-> <<>>]),
              post |-> Snap([R |-> <<>>, C |-> <<>>, E |-> <<>>, ps |-> <<>>])]]

\* the first kernel of a sweep, and the kernel that follows each one
FirstStage(ctl) ==
    IF ctl.DelRowNonbinding THEN "nb"
    ELSE IF ctl.DelFixedVars THEN "fx"
    ELSE IF ctl.DelRowSingleton THEN "rsg"
    ELSE IF ctl.DelColSingleton THEN "fcs"
    ELSE "mtr"

AfterFxSkipping(ctl) == IF ctl.DelColSingleton THEN "fcs" ELSE "mtr"

AfterFx(ctl) ==
    IF ctl.DelRowSingleton THEN "rsg"
    ELSE IF ctl.DelColSingleton THEN "fcs"
    ELSE "mtr"

AfterRsg(ctl) == IF ctl.DelColSingleton THEN "fcs" ELSE "mtr"

\* where ReduceMatrix returns to
ReturnPc == IF run.caller = "solve" THEN "reduced" ELSE "idle"

EnterReduceMatrixAlways(K, caller) ==
    /\ pc' = FirstStage(psc)
    /\ run' = [run EXCEPT !.runs = @ + 1, !.i = 1, !.itemsInPass = 0, !.numChanges = 0,
                          !.exit = "", !.prevExit = run.exit, !.caller = caller,
                          !.sweeps = 0, !.rn = Snap(K), !.sw = Snap(K)]

\* numChanges = 0; for i := 1; i <= psControl.MaxIter; i++ { itemsInPass = 0 ...
EnterReduceMatrix(K, caller) ==
    IF psc.MaxIter < 1
    THEN /\ pc' = IF caller = "solve" THEN "reduced" ELSE "idle"
         /\ run' = [run EXCEPT !.runs = @ + 1, !.i = 1, !.itemsInPass = 0, !.numChanges = 0,
                               !.exit = "maxiter", !.prevExit = run.exit, !.caller = caller,
                               !.sweeps = 0, !.rn = Snap(K), !.sw = Snap(K)]
    ELSE /\ pc' = FirstStage(psc)
         /\ run' = [run EXCEPT !.runs = @ + 1, !.i = 1, !.itemsInPass = 0, !.numChanges = 0,
                               !.exit = "", !.prevExit = run.exit, !.caller = caller,
                               !.sweeps = 0, !.rn = Snap(K), !.sw = Snap(K)]

\* option 39 of the menu: lpo.ReduceMatrix(psCtrl)
CallReduceMatrix ==
    /\ pc = "idle"
    /\ run.runs < MaxRuns
    /\ EnterReduceMatrix(KNow, "menu")
    /\ last' = [op |-> "ReduceMatrix", ok |-> TRUE, n |-> 0, log |-> <<>>, pre |-> KNow]
    /\ UNCHANGED <<Rows, Cols, Elems, ObjRow, psOpList, psc, sol>>

\* a sweep that goes on to its next kernel after a kernel has returned an error
KernelStepContinuing(name, res, next, counted) ==
    /\ SetK(res.K)
    /\ last' = [op |-> name, ok |-> res.ok, n |-> res.n, log |-> res.log, pre |-> KNow]
    /\ IF res.bad
       THEN /\ pc' = "corrupt"
            /\ run' = [run EXCEPT !.exit = "corrupt"]
       ELSE /\ pc' = next
            /\ run' = [run EXCEPT !.itemsInPass = IF counted THEN @ + res.n ELSE @]
    /\ UNCHANGED <<ObjRow, psc, sol>>

\* one kernel call of the sweep and the lines that follow it up to the next call
KernelStep(name, res, next, counted) ==
    /\ SetK(res.K)
    /\ last' = [op |-> name, ok |-> res.ok, n |-> res.n, log |-> res.log, pre |-> KNow]
    /\ IF res.bad
       THEN /\ pc' = "corrupt"
            /\ run' = [run EXCEPT !.exit = "corrupt"]
       ELSE IF ~res.ok
       THEN /\ pc' = ReturnPc
            /\ run' = [run EXCEPT !.exit = "error", !.numChanges = @ + res.n]
       ELSE /\ pc' = next
            /\ run' = [run EXCEPT !.itemsInPass = IF counted THEN @ + res.n ELSE @]
    /\ UNCHANGED <<ObjRow, psc, sol>>

\* if psControl.DelRowNonbinding { TightenBounds(...); delNbRows(&itemsFound) ... }
\* if err = TightenBounds(...); err != nil { return ... }; delNbRows(&itemsFound)
NbAfterTighten(t) ==
    IF ~t.ok THEN [K |-> t.K, n |-> 0, ok |-> FALSE, bad |-> FALSE, log |-> <<>>]
    ELSE delNbRows(t.K)

StepNb ==
    /\ pc = "nb"
    /\ \E res \in {NbAfterTighten(TightenBounds(KNow, psc.MaxIter))} :
          KernelStep("delNbRows", res, "fx", TRUE)

\* if psControl.DelFixedVars || psControl.DelRowNonbinding { delFixedVars(&itemsFound) ... }
StepFx ==
    /\ pc = "fx"
    /\ \E res \in {delFixedVars(KNow)} : KernelStep("delFixedVars", res, AfterFx(psc), TRUE)

\* if psControl.DelRowSingleton { delRowSingletons(&itemsFound) ... }
StepRsg ==
    /\ pc = "rsg"
    /\ \E res \in {delRowSingletons(KNow)} :
          KernelStep("delRowSingletons", res, AfterRsg(psc), TRUE)

\* if psControl.DelColSingleton { delFreeColSingls(&itemsFound) ... }
StepFcs ==
    /\ pc = "fcs"
    /\ \E res \in {delFreeColSingls(KNow, ObjRow)} :
          KernelStep("delFreeColSingls", res, "mtr", TRUE)

\* delEmptyRows(&itemsFound): itemsFound is not added to itemsInPass
StepMtr ==
    /\ pc = "mtr"
    /\ \E res \in {delEmptyRows(KNow)} : KernelStep("delEmptyRows", res, "mtc", FALSE)

\* delEmptyCols(&itemsFound); itemsInPass += itemsFound; numChanges += itemsInPass;
\* if itemsInPass == 0 { break }; i++
SweepEnd(res, inPass) ==
    /\ SetK(res.K)
    /\ last' = [op |-> "delEmptyCols", ok |-> res.ok, n |-> res.n, log |-> res.log,
                pre |-> KNow]
    /\ IF res.bad
       THEN /\ pc' = "corrupt"
            /\ run' = [run EXCEPT !.exit = "corrupt"]
       ELSE IF ~res.ok
       THEN /\ pc' = ReturnPc
            /\ run' = [run EXCEPT !.exit = "error", !.numChanges = @ + res.n]
       ELSE IF inPass = 0
       THEN /\ pc' = ReturnPc
            /\ run' = [run EXCEPT !.itemsInPass = 0, !.numChanges = @ + inPass,
                                  !.sweeps = @ + 1, !.exit = "converged",
                                  !.fin = [pre |-> run.sw, post |-> Snap(res.K)]]
       ELSE IF run.i + 1 > psc.MaxIter
       THEN /\ pc' = ReturnPc
            /\ run' = [run EXCEPT !.itemsInPass = inPass, !.numChanges = @ + inPass,
                                  !.sweeps = @ + 1, !.exit = "maxiter",
                                  !.fin = [pre |-> run.sw, post |-> Snap(res.K)]]
       ELSE /\ pc' = FirstStage(psc)
            /\ run' = [run EXCEPT !.i = @ + 1, !.itemsInPass = 0,
                                  !.numChanges = @ + inPass, !.sweeps = @ + 1,
                                  !.sw = Snap(res.K),
                                  !.fin = [pre |-> run.sw, post |-> Snap(res.K)]]

SweepCounted(res) == SweepEnd(res, run.itemsInPass + res.n)

StepMtc ==
    /\ pc = "mtc"
    /\ \E res \in {delEmptyCols(KNow)} : SweepCounted(res)
    /\ UNCHANGED <<ObjRow, psc, sol>>

Sweep == StepNb \/ StepFx \/ StepRsg \/ StepFcs \/ StepMtr \/ StepMtc

InitRed ==
    /\ \/ \E m \in GenModels :
             /\ Rows = m.st.R
             /\ Cols = m.st.C
             /\ Elems = m.st.E
             /\ ObjRow = m.obj
             /\ psc \in Ctls(FALSE)
       \/ \E m \in ScenarioModels :
             /\ Rows = m.st.R
             /\ Cols = m.st.C
             /\ Elems = m.st.E
             /\ ObjRow = m.obj
             /\ psc \in ScenarioCtls(FALSE)
    /\ psOpList = <<>>
    /\ pc = "idle"
    /\ run = IdleRun
    /\ sol = NoSol
    /\ last = [op |-> "init", ok |-> TRUE, n |-> 0, log |-> <<>>,
               pre |-> [R |-> <<>>, C |-> <<>>, E |-> <<>>, ps |-> <<>>]]

NextRed == CallReduceMatrix \/ StepNb \/ StepFx \/ StepRsg \/ StepFcs \/ StepMtr \/ StepMtc

SpecRed == InitRed /\ [][NextRed]_vars

-----------------------------------------------------------------------------
(* postSolve and CplexSolveProb.  A map is a function from names to records. *)

MapPut(m, k, v) == [n \in (DOMAIN m) \cup {k} |-> IF n = k THEN v ELSE m[n]]

EmptyMap == [n \in {} |-> 0]

PsVarBlank(col, value) ==
    [Value |-> value, ReducedCost |-> Q(0), Status |-> "", ScaleFactor |-> col.ScaleFactor]

\* the variable record postSolve builds for the column of a list item
PsVar(col, value) ==
    [Value |-> value, ReducedCost |-> Q(0), Status |-> psVarStatNA,
     ScaleFactor |-> col.ScaleFactor]

\* the constraint record postSolve builds for the row of a list item
PsCon(row) ==
    [Type |-> row.Type, Rhs |-> row.Rhs, Dual |-> Q(0), Slack |-> Q(0), Pi |-> Q(0),
     Status |-> psConStatNA, ScaleFactor |-> row.ScaleFactor]

RECURSIVE getPstLhsLoopUnweighted(_, _, _, _)
getPstLhsLoopUnweighted(coefs, j, varMap, lhs) ==
    IF j > Len(coefs) THEN [ok |-> TRUE, lhs |-> lhs]
    ELSE IF coefs[j].Name \notin DOMAIN varMap THEN [ok |-> FALSE, lhs |-> lhs]
    ELSE getPstLhsLoopUnweighted(coefs, j + 1, varMap, RAdd(lhs, varMap[coefs[j].Name].Value))

\* getPstLhs: the loop over psRow.Coef from position j on
RECURSIVE getPstLhsLoop(_, _, _, _)
getPstLhsLoop(coefs, j, varMap, lhs) ==
    IF j > Len(coefs) THEN [ok |-> TRUE, lhs |-> lhs]
    ELSE IF coefs[j].Name \notin DOMAIN varMap THEN [ok |-> FALSE, lhs |-> lhs]
    ELSE getPstLhsLoop(coefs, j + 1, varMap,
                       RAdd(lhs, RMul(varMap[coefs[j].Name].Value, coefs[j].Value)))

getPstLhsScaled(r, scale) == IF r.ok THEN [r EXCEPT !.lhs = RMul(@, scale)] ELSE r

getPstLhs(row, varMap) ==
    getPstLhsScaled(getPstLhsLoop(row.Coef, 1, varMap, Q(0)), row.ScaleFactor)

\* case psopFreeCol: the loop over the coefficients of the captured row
RECURSIVE FreeColWalk(_, _, _, _, _)
FreeColWalk(it, j, varMap, lhs, coef) ==
    IF j > Len(it.Row.Coef) THEN [ok |-> TRUE, lhs |-> lhs, coef |-> coef]
    ELSE IF it.Row.Coef[j].Name = it.Col.Name
    THEN FreeColWalk(it, j + 1, varMap, lhs, it.Row.Coef[j].Value)
    ELSE IF it.Row.Coef[j].Name \notin DOMAIN varMap
    THEN [ok |-> FALSE, lhs |-> lhs, coef |-> coef]
    ELSE FreeColWalk(it, j + 1, varMap,
                     RAdd(lhs, RMul(varMap[it.Row.Coef[j].Name].Value, it.Row.Coef[j].Value)),
                     coef)

\* case psopRowSingltn: the coefficient of the captured column in the captured row
RECURSIVE SingletonCoef(_, _)
SingletonCoef(it, j) ==
    IF j > Len(it.Row.Coef) THEN Q(0)
    ELSE IF it.Row.Coef[j].Name = it.Col.Name THEN it.Row.Coef[j].Value
    ELSE SingletonCoef(it, j + 1)

RECURSIVE postSolveLoop(_, _, _, _)
postSolveFreeCol(ps, i, con, var, w) ==
    IF ~w.ok THEN [ok |-> FALSE, con |-> con, var |-> var, err |-> "unable to find value"]
    ELSE postSolveLoop(ps, i - 1,
                       MapPut(con, ps[i].Row.Name, PsCon(ps[i].Row)),
                       MapPut(var, ps[i].Col.Name,
                              PsVar(ps[i].Col, RDiv(RSub(ps[i].Row.Rhs, w.lhs), w.coef))))

postSolveSingleton(ps, i, con, var, coef) ==
    IF coef = Q(0)
    THEN [ok |-> FALSE, con |-> con, var |-> var, err |-> "unable to find coefficient"]
    ELSE postSolveLoop(ps, i - 1,
                       MapPut(con, ps[i].Row.Name, PsCon(ps[i].Row)),
                       MapPut(var, ps[i].Col.Name, PsVar(ps[i].Col, RDiv(ps[i].Row.Rhs, coef))))

\* for i := len(psOpList) - 1; i >= 0; i-- { switch psOpList[i].OpType ... }
postSolveLoop(ps, i, con, var) ==
    IF i < 1 THEN [ok |-> TRUE, con |-> con, var |-> var, err |-> ""]
    ELSE IF ps[i].OpType \in {psopEmptyRow, psopNbRow} THEN postSolveLoop(ps, i - 1, con, var)
    ELSE IF ps[i].OpType = psopFixedVar
    THEN postSolveLoop(ps, i - 1, con,
                       MapPut(var, ps[i].Col.Name, PsVar(ps[i].Col, ps[i].Col.BndLo)))
    ELSE IF ps[i].OpType = psopEmptyCol
    THEN postSolveLoop(ps, i - 1, con, MapPut(var, ps[i].Col.Name, PsVar(ps[i].Col, Q(0))))
    ELSE IF ps[i].OpType = psopFreeCol
    THEN postSolveFreeCol(ps, i, con, var, FreeColWalk(ps[i], 1, var, Q(0), Q(0)))
    ELSE IF ps[i].OpType = psopRowSingltn
    THEN postSolveSingleton(ps, i, con, var, SingletonCoef(ps[i], 1))
    ELSE [ok |-> FALSE, con |-> con, var |-> var, err |-> "Unexpected operation"]

postSolve(ps, con, var) == postSolveLoop(ps, Len(ps), con, var)

\* addConMapItem: Rhs, Type and ScaleFactor from psRow; Status, Slack, Dual kept or initialised
addConMapItem(con, row) ==
    IF row.Name \notin DOMAIN con
    THEN MapPut(con, row.Name,
                [Type |-> row.Type, Rhs |-> row.Rhs, Dual |-> Q(0), Slack |-> Q(0),
                 Pi |-> Q(0), Status |-> psConStatNA, ScaleFactor |-> row.ScaleFactor])
    ELSE MapPut(con, row.Name,
                [Type |-> row.Type, Rhs |-> row.Rhs, Dual |-> con[row.Name].Dual,
                 Slack |-> con[row.Name].Slack, Pi |-> Q(0),
                 Status |-> con[row.Name].Status, ScaleFactor |-> row.ScaleFactor])

\* for i := 0; i < len(psRows); i++ { addConMapItem(psRslt.ConMap, psRows[i]) }
RECURSIVE RestoreRows(_, _, _)
RestoreRows(con, psRows, k) ==
    IF k > Len(psRows) THEN con
    ELSE RestoreRows(addConMapItem(con, psRows[k]), psRows, k + 1)

\* what the solver reports beside the values: cpSoln[i].RedCost, .Slack and .Pi
SolverRedCost == Q(1)

SolverSlack == Q(1)

SolverPi == Q(1)

\* buildCpxVarMap over the columns the solver returns, with their values vals
buildCpxVarMap(scaleMap, C, vals) ==
    [n \in ColNames(C) |->
        LET j == CHOOSE c \in 1..Len(C) : C[c].Name = n
        IN  [Value |-> vals[j], ReducedCost |-> SolverRedCost, Status |-> psVarStatNA,
             ScaleFactor |-> scaleMap[n]]]

\* buildCpxConMap over the rows the solver returns: every row but the objective
buildCpxConMap(R, objRow) ==
    [n \in {R[k].Name : k \in (1..Len(R)) \ {objRow + 1}} |->
        [Type |-> "X", Rhs |-> Q(0), Dual |-> Q(0), Slack |-> SolverSlack, Pi |-> SolverPi,
         Status |-> psVarStatNA, ScaleFactor |-> Q(0)]]

\* TransToGpx returns nil
TransToGpxOk(K, objRow) ==
    /\ Len(K.R) # 0
    /\ Len(K.C) # 0
    /\ Len(K.E) # 0
    /\ objRow >= 0 /\ objRow < Len(K.R)
    /\ \A j \in 1..Len(K.C) : K.C[j].Type \in {"R", "I"}
    /\ \A i \in (1..Len(K.R)) \ {objRow + 1} :
         /\ K.R[i].Type \in {"L", "E", "G", "R", "N"}
         /\ K.R[i].Type = "N" => (K.R[i].RHSup # Plinfy \/ K.R[i].RHSlo # RNeg(Plinfy))

objRowConst == Q(0)

\* the values the solver may report for a column
SolverValues == {Q(0), Q(2)}

\* if ObjRow >= 0 { if ObjRow != 0 { _ = swapRows(0, ObjRow); ObjRow = 0 } ... }
ObjectiveFirst(st, objRow) ==
    IF objRow >= 0 /\ objRow # 0 THEN swapRows(st, 0, objRow).st ELSE st

\* CplexSolveProb from the translation of the rows up to the call of ReduceMatrix,
\* on the store in with objective row objRow
SolveEntered(in, objRow, st) ==
    /\ Rows' = st.R
    /\ Cols' = st.C
    /\ Elems' = st.E
    /\ psOpList' = <<>>
    /\ ObjRow' = IF objRow >= 0 THEN 0 ELSE objRow
    /\ sol' = [NoSol EXCEPT !.stage = "reducing",
                            !.psRows = translateAllRows(in),
                            !.origObjFunc = IF objRow >= 0 THEN translateRow(st, st.R[1])
                                            ELSE psRowZero,
                            !.colScaleMap = [n \in ColNames(in.C) |->
                                                in.C[CHOOSE c \in 1..Len(in.C) :
                                                        in.C[c].Name = n].ScaleFactor],
                            !.rows = RowNames(in.R), !.cols = ColNames(in.C),
                            !.numRows = Len(in.R), !.numCols = Len(in.C),
                            !.numElem = Len(in.E), !.objRow = objRow,
                            !.inRows = in.R, !.inCols = in.C]
    /\ EnterReduceMatrix([R |-> st.R, C |-> st.C, E |-> st.E, ps |-> <<>>], "solve")

\* CplexSolveProb returns an error before ReduceMatrix is called
SolveRefused(in, objRow, err) ==
    /\ pc' = "done"
    /\ Rows' = in.R
    /\ Cols' = in.C
    /\ Elems' = in.E
    /\ ObjRow' = objRow
    /\ psOpList' = <<>>
    /\ sol' = [NoSol EXCEPT !.stage = "failed", !.err = err]
    /\ UNCHANGED run

\* if numRows <= 0 { return ... }; if numCols <= 0 ...; if numElem <= 0 ...
SolveSized(in, objRow) ==
    IF Len(in.R) <= 0 \/ Len(in.C) <= 0 \/ Len(in.E) <= 0
    THEN SolveRefused(in, objRow, "empty list")
    ELSE SolveEntered(in, objRow, ObjectiveFirst(in, objRow))

\* the model the MPS input file holds
MpsFileModel == SingletonRowModel

\* ReadMpsFile(psc.FileInMps): an error, or the store populated from the file
ReadMpsFile(fileName) ==
    {[ok |-> FALSE, st |-> Cur, obj |-> ObjRow],
     [ok |-> TRUE, st |-> MpsFileModel.st, obj |-> MpsFileModel.obj]}

OverwritesInputSolnOnly(ctl) == ctl.FileInMps = ctl.FileOutSoln

\* if psc.FileInMps == psc.FileOutSoln { return ... }; ... FileOutMpsRdcd ...; ... FileOutPsop ...
OverwritesInput(ctl) ==
    \/ ctl.FileInMps = ctl.FileOutSoln
    \/ ctl.FileInMps = ctl.FileOutMpsRdcd
    \/ ctl.FileInMps = ctl.FileOutPsop

\* if psc.FileInMps != "" { ReadMpsFile ...; the three comparisons }
SolveRead(rd) ==
    IF ~rd.ok THEN SolveRefused(rd.st, rd.obj, "read")
    ELSE IF OverwritesInput(psc) THEN SolveRefused(rd.st, rd.obj, "overwrite")
    ELSE SolveSized(rd.st, rd.obj)

\* CplexSolveProb(psc, &psRslt) up to the first sweep of ReduceMatrix
CallCplexSolveProb ==
    /\ pc = "idle"
    /\ run.runs = 0
    /\ sol.stage = "none"
    /\ last' = [op |-> "CplexSolveProb", ok |-> TRUE, n |-> 0, log |-> <<>>, pre |-> KNow]
    /\ IF psc.FileInMps # ""
       THEN \E rd \in ReadMpsFile(psc.FileInMps) : SolveRead(rd)
       ELSE SolveSized(Cur, ObjRow)
    /\ UNCHANGED psc

\* the output files CplexSolveProb writes once ReduceMatrix has returned
ReducedFiles == {psc.FileOutMpsRdcd, psc.FileOutPsop} \ {""}

\* gpx.SolWrite(psc.FileOutSoln)
SolutionFile == {psc.FileOutSoln} \ {""}

SolveSizes(s) ==
    [s EXCEPT !.RowsDel = s.numRows - Len(Rows), !.ColsDel = s.numCols - Len(Cols),
              !.ElemDel = s.numElem - Len(Elems), !.written = ReducedFiles]

\* getPstLhs(origObjFunc, psRslt.VarMap, &psRslt.ObjVal); psRslt.ObjVal -= objRowConst
SolveValued(s, var, con, g) ==
    [s EXCEPT !.stage = IF g.ok THEN "returned" ELSE "failed", !.solved = TRUE,
              !.VarMap = var, !.ConMap = con,
              !.ObjVal = IF g.ok THEN RSub(g.lhs, objRowConst) ELSE g.lhs,
              !.err = IF g.ok THEN "" ELSE "Failed to find LHS"]

SolveRestored(s, var, con) == SolveValued(s, var, con, getPstLhs(s.origObjFunc, var))

\* the lines of CplexSolveProb that follow postSolve
SolvePosted(s, p) ==
    IF ~p.ok
    THEN [s EXCEPT !.stage = "failed", !.solved = TRUE, !.VarMap = p.var, !.ConMap = p.con,
                   !.err = p.err]
    ELSE SolveRestored(s, p.var, RestoreRows(p.con, s.psRows, 1))

\* the lines of CplexSolveProb that follow the return of ReduceMatrix
SolveReturned(s, answers, vals) ==
    IF run.exit = "error" THEN [s EXCEPT !.stage = "failed", !.err = "ReduceMatrix"]
    ELSE IF ~psc.RunSolver THEN [SolveSizes(s) EXCEPT !.stage = "returned"]
    ELSE IF ~TransToGpxOk(KNow, ObjRow)
    THEN [SolveSizes(s) EXCEPT !.stage = "failed", !.err = "CplexCreateProb"]
    ELSE IF ~answers THEN [SolveSizes(s) EXCEPT !.stage = "failed", !.err = "solver"]
    ELSE SolvePosted([SolveSizes(s) EXCEPT !.written = @ \cup SolutionFile],
                     postSolve(psOpList, buildCpxConMap(Rows, ObjRow),
                               buildCpxVarMap(s.colScaleMap, Cols, vals)))

\* CplexSolveProb from the return of ReduceMatrix to its own return; the solver
\* either fails or reports some value for every column it was given
ReturnCplexSolveProb ==
    /\ pc = "reduced"
    /\ sol.stage = "reducing"
    /\ \E answers \in BOOLEAN : \E vals \in [1..Len(Cols) -> SolverValues] :
          sol' = SolveReturned(sol, answers, vals)
    /\ pc' = "done"
    /\ last' = [op |-> "CplexSolveProb", ok |-> sol'.stage = "returned", n |-> 0,
                log |-> <<>>, pre |-> KNow]
    /\ UNCHANGED <<Rows, Cols, Elems, ObjRow, psOpList, psc, run>>

InitSolve ==
    /\ \/ \E m \in GenModels :
             /\ Rows = m.st.R
             /\ Cols = m.st.C
             /\ Elems = m.st.E
             /\ ObjRow = m.obj
             /\ psc \in Ctls(TRUE)
       \/ \E m \in ScenarioModels :
             /\ Rows = m.st.R
             /\ Cols = m.st.C
             /\ Elems = m.st.E
             /\ ObjRow = m.obj
             /\ psc \in ScenarioCtls(TRUE) \cup ScenarioCtls(FALSE)
       \/ /\ Rows = FreeColModel.st.R
          /\ Cols = FreeColModel.st.C
          /\ Elems = FreeColModel.st.E
          /\ ObjRow = FreeColModel.obj
          /\ psc \in FileCtls
    /\ psOpList = <<>>
    /\ pc = "idle"
    /\ run = IdleRun
    /\ sol = NoSol
    /\ last = [op |-> "init", ok |-> TRUE, n |-> 0, log |-> <<>>,
               pre |-> [R |-> <<>>, C |-> <<>>, E |-> <<>>, ps |-> <<>>]]

NextSolve ==
    \/ CallCplexSolveProb
    \/ StepNb \/ StepFx \/ StepRsg \/ StepFcs \/ StepMtr \/ StepMtc
    \/ ReturnCplexSolveProb

SpecSolve == InitSolve /\ [][NextSolve]_vars

-----------------------------------------------------------------------------
(* CalcLhs behind its menu wrapper wpCalcLhs.                               *)

\* the values the user enters for the variables
PointValues == {Q(0 - 1), Q(0), Q(2)}

\* the name of the column of the element at position i of the row's list
ElemColName(st, rowIndex, i) ==
    At(st.C, At(st.E, At(At(st.R, rowIndex).HasElems, i)).InCol).Name

wpGetPointReversed(st, rowIndex, vals) ==
    IF rowIndex < 0 \/ rowIndex >= Len(st.R) THEN [ok |-> FALSE, point |-> <<>>]
    ELSE [ok |-> TRUE,
          point |-> [i \in 1..Len(At(st.R, rowIndex).HasElems) |->
                        vals[ElemColName(st, rowIndex,
                                         Len(At(st.R, rowIndex).HasElems) - i)]]]

\* wpGetPoint: the index is checked, then one value is asked by column name for
\* each element of the row, in the order of Rows[rowIndex].HasElems
wpGetPoint(st, rowIndex, vals) ==
    IF rowIndex < 0 \/ rowIndex >= Len(st.R) THEN [ok |-> FALSE, point |-> <<>>]
    ELSE [ok |-> TRUE,
          point |-> [i \in 1..Len(At(st.R, rowIndex).HasElems) |->
                        vals[ElemColName(st, rowIndex, i - 1)]]]

\* the sum of CalcLhs from position i of the element list on
RECURSIVE CalcLhsLoop(_, _, _, _, _)
CalcLhsLoop(st, rowIndex, point, i, lhs) ==
    IF i >= Len(At(st.R, rowIndex).HasElems) THEN lhs
    ELSE CalcLhsLoop(st, rowIndex, point, i + 1,
                     RAdd(lhs, RMul(At(st.E, At(At(st.R, rowIndex).HasElems, i)).Value,
                                    At(point, i))))

\* CalcLhs(rowIndex, point, &lhs, &status)
CalcLhs(st, rowIndex, point) ==
    IF rowIndex < 0 \/ rowIndex >= Len(st.R) THEN [ok |-> FALSE, lhs |-> Q(0)]
    ELSE IF Len(point) # Len(At(st.R, rowIndex).HasElems) THEN [ok |-> FALSE, lhs |-> Q(0)]
    ELSE [ok |-> TRUE,
          lhs |-> RMul(At(st.R, rowIndex).ScaleFactor,
                       CalcLhsLoop(st, rowIndex, point, 0, Q(0)))]

\* if err = wpGetPoint(&index, &conPoint); err != nil { return ... }; lpo.CalcLhs(...)
wpCalcLhsGot(st, rowIndex, got) ==
    IF ~got.ok THEN [ok |-> FALSE, lhs |-> Q(0)] ELSE CalcLhs(st, rowIndex, got.point)

\* the menu option: the user enters a row index and a value for each variable asked
wpCalcLhs ==
    /\ pc = "idle"
    /\ \E rowIndex \in (0 - 1)..Len(Rows), vals \in [ColNames(Cols) -> PointValues] :
          \E res \in {wpCalcLhsGot(Cur, rowIndex, wpGetPoint(Cur, rowIndex, vals))} :
              last' = [op |-> "CalcLhs", ok |-> res.ok, row |-> rowIndex, vals |-> vals,
                       lhs |-> res.lhs]
    /\ UNCHANGED <<Rows, Cols, Elems, ObjRow, psOpList, pc, psc, run, sol>>

InitLhs ==
    /\ \E m \in ScenarioModels :
          /\ Rows = m.st.R
          /\ Cols = m.st.C
          /\ Elems = m.st.E
          /\ ObjRow = m.obj
    /\ psc = Ctl(MaxIterBound, FALSE, FALSE, FALSE, FALSE, FALSE)
    /\ psOpList = <<>>
    /\ pc = "idle"
    /\ run = IdleRun
    /\ sol = NoSol
    /\ last = [op |-> "init", ok |-> TRUE, n |-> 0, log |-> <<>>,
               pre |-> [R |-> <<>>, C |-> <<>>, E |-> <<>>, ps |-> <<>>]]

NextLhs == wpCalcLhs

SpecLhs == InitLhs /\ [][NextLhs]_vars

-----------------------------------------------------------------------------
(* SpecTag: delTaggedRows and delTaggedCols called on stores whose rows or  *)
(* whose columns were tagged in any placement, as the scans of the kernels  *)
(* leave them.                                                              *)

\* st with its rows in the states rs and its columns in the states cs
TaggedStore(st, rs, cs) ==
    Store([k \in 1..Len(st.R) |-> [st.R[k] EXCEPT !.State = rs[k]]],
          [k \in 1..Len(st.C) |-> [st.C[k] EXCEPT !.State = cs[k]]],
          st.E)

\* every entry of list is an index of E
ListsElems(list, E) == \A k \in 1..Len(list) : list[k] \in 0..(Len(E) - 1)

\* the loops of swapRows index Elems in range
swapRowsReads(st, srcIndex, destIndex) ==
    /\ ListsElems(At(st.R, srcIndex).HasElems, st.E)
    /\ ListsElems(At(st.R, destIndex).HasElems, st.E)

\* the loops of swapCols index Elems in range
swapColsReads(st, srcIndex, destIndex) ==
    /\ ListsElems(At(st.C, srcIndex).HasElems, st.E)
    /\ ListsElems(At(st.C, destIndex).HasElems, st.E)

\* one pass of the loop of DelRow indexes Elems, Cols and Rows in range
DelRowStepReads(st, lastRow, i, iLastElem) ==
    /\ At(At(st.R, lastRow).HasElems, i) \in 0..(Len(st.E) - 1)
    /\ At(st.E, At(At(st.R, lastRow).HasElems, i)).InCol \in 0..(Len(st.C) - 1)
    /\ iLastElem \in 0..(Len(st.E) - 1)
    /\ At(st.E, iLastElem).InRow \in 0..(Len(st.R) - 1)
    /\ At(st.E, iLastElem).InCol \in 0..(Len(st.C) - 1)

RECURSIVE DelRowLoopReads(_, _, _, _)
DelRowLoopReads(st, lastRow, i, iLastElem) ==
    IF i >= Len(At(st.R, lastRow).HasElems) THEN TRUE
    ELSE /\ DelRowStepReads(st, lastRow, i, iLastElem)
         /\ DelRowLoopReads(DelRowStep(st, lastRow, i, iLastElem), lastRow, i + 1,
                            iLastElem - 1)

\* DelRow(srcRow), srcRow in range, runs to its end: no index it computes is
\* out of range
DelRowReads(st, srcRow) ==
    IF srcRow # Len(st.R) - 1
    THEN /\ swapRowsReads(st, srcRow, Len(st.R) - 1)
         /\ DelRowLoopReads(swapRows(st, srcRow, Len(st.R) - 1).st, Len(st.R) - 1, 0,
                            Len(st.E) - 1)
    ELSE DelRowLoopReads(st, Len(st.R) - 1, 0, Len(st.E) - 1)

\* one pass of the loop of DelCol indexes Elems, Rows and Cols in range
DelColStepReads(st, lastCol, i, iLastElem) ==
    /\ At(At(st.C, lastCol).HasElems, i) \in 0..(Len(st.E) - 1)
    /\ At(st.E, At(At(st.C, lastCol).HasElems, i)).InRow \in 0..(Len(st.R) - 1)
    /\ iLastElem \in 0..(Len(st.E) - 1)
    /\ At(st.E, iLastElem).InRow \in 0..(Len(st.R) - 1)
    /\ At(st.E, iLastElem).InCol \in 0..(Len(st.C) - 1)

RECURSIVE DelColLoopReads(_, _, _, _)
DelColLoopReads(st, lastCol, i, iLastElem) ==
    IF i >= Len(At(st.C, lastCol).HasElems) THEN TRUE
    ELSE /\ DelColStepReads(st, lastCol, i, iLastElem)
         /\ DelColLoopReads(DelColStep(st, lastCol, i, iLastElem), lastCol, i + 1,
                            iLastElem - 1)

\* DelCol(srcCol), srcCol in range, runs to its end
DelColReads(st, srcCol) ==
    IF srcCol # Len(st.C) - 1
    THEN /\ swapColsReads(st, srcCol, Len(st.C) - 1)
         /\ DelColLoopReads(swapCols(st, srcCol, Len(st.C) - 1).st, Len(st.C) - 1, 0,
                            Len(st.E) - 1)
    ELSE DelColLoopReads(st, Len(st.C) - 1, 0, Len(st.E) - 1)

\* how a run of delTaggedRows / delTaggedCols ended: returned (ok: err == nil)
\* or stopped by an index out of range (panic), the store as it was then
Ran(st, numDltd, ok, panic) == [st |-> st, numDltd |-> numDltd, ok |-> ok, panic |-> panic]

\* the loop of delTaggedRows as it runs on any store, cross-indexed or not
RECURSIVE delTaggedRowsRun(_, _, _)
delTaggedRowsRun(st, i, numDltd) ==
    IF i < 0 THEN Ran(st, numDltd, TRUE, FALSE)
    ELSE IF At(st.R, i).State # stateDelete THEN delTaggedRowsRun(st, i - 1, numDltd)
    ELSE IF ~DelRowReads(st, i) THEN Ran(st, numDltd, TRUE, TRUE)
    ELSE IF ~DelRow(st, i).ok THEN Ran(st, numDltd, FALSE, FALSE)
    ELSE delTaggedRowsRun(DelRow(st, i).st, i - 1, numDltd + 1)

\* the loop of delTaggedCols as it runs on any store
RECURSIVE delTaggedColsRun(_, _, _)
delTaggedColsRun(st, i, numDltd) ==
    IF i < 0 THEN Ran(st, numDltd, TRUE, FALSE)
    ELSE IF At(st.C, i).State # stateDelete THEN delTaggedColsRun(st, i - 1, numDltd)
    ELSE IF ~DelColReads(st, i) THEN Ran(st, numDltd, TRUE, TRUE)
    ELSE IF ~DelCol(st, i).ok THEN Ran(st, numDltd, FALSE, FALSE)
    ELSE delTaggedColsRun(DelCol(st, i).st, i - 1, numDltd + 1)

\* what a call of delTaggedRows / delTaggedCols was given, how it ended and
\* whether it left the store cross-indexed
Swept(name, d) ==
    [op |-> name, ok |-> d.ok, panic |-> d.panic, bad |-> ~CrossIndexed(d.st),
     n |-> d.numDltd, pre |-> Cur]

\* var rowsFound int; err = delTaggedRows(&rowsFound)
CallDelTaggedRows ==
    /\ pc = "prim"
    /\ CrossIndexed(Cur)
    /\ \E d \in {delTaggedRowsRun(Cur, Len(Rows) - 1, 0)} :
          /\ SetStore(d.st)
          /\ last' = Swept("delTaggedRows", d)
    /\ PrimFrame

\* err = delTaggedCols(&colsFound)
CallDelTaggedCols ==
    /\ pc = "prim"
    /\ CrossIndexed(Cur)
    /\ \E d \in {delTaggedColsRun(Cur, Len(Cols) - 1, 0)} :
          /\ SetStore(d.st)
          /\ last' = Swept("delTaggedCols", d)
    /\ PrimFrame

NextTag == CallDelTaggedRows \/ CallDelTaggedCols

InitTag ==
    \E n \in 1..MaxRows, m \in 1..MaxCols :
      \E S \in UpTo((0..(n - 1)) \X (0..(m - 1)), MaxElems) :
        \E rs \in [1..n -> {stateActive, stateDelete}],
           cs \in [1..m -> {stateActive, stateDelete}] :
          /\ (\A k \in 1..n : rs[k] = stateActive) \/ (\A k \in 1..m : cs[k] = stateActive)
          /\ LET st == TaggedStore(PrimStore(n, m, S), rs, cs)
             IN  /\ Rows = st.R
                 /\ Cols = st.C
                 /\ Elems = st.E
                 /\ ObjRow \in {0 - 1}
                 /\ psOpList = <<>>
                 /\ pc = "prim"
                 /\ psc = NoCtl
                 /\ run = NoRun
                 /\ sol = NoSol
                 /\ last = Op("init", 0, 0, TRUE)

SpecTag == InitTag /\ [][NextTag]_vars

\* C3: once the solver has answered and CplexSolveProb has returned, the variable map
\* holds exactly the names of the original columns and the constraint map exactly the
\* names of the original rows.
C3_MapsHoldOriginalNames ==
    (pc = "done" /\ sol.solved) =>
        /\ DOMAIN sol.VarMap = sol.cols
        /\ DOMAIN sol.ConMap = sol.rows

-----------------------------------------------------------------------------
(* properties of the kernels and of ReduceMatrix *)

DomMax == 3

\* the values an assignment gives to a variable
Dom == {Q(v) : v \in (0 - 1)..DomMax}

RowByName(R, n) == R[CHOOSE k \in 1..Len(R) : R[k].Name = n]

\* the sum of coefficient * val[column name] over the elements list[k..] of a row of K
RECURSIVE RowSum(_, _, _, _)
RowSum(K, list, k, val) ==
    IF k > Len(list) THEN Q(0)
    ELSE RAdd(RMul(At(K.E, list[k]).Value, val[At(K.C, At(K.E, list[k]).InCol).Name]),
              RowSum(K, list, k + 1, val))

\* side, decreased by d when it is finite
Decreased(side, d) ==
    IF side = Plinfy \/ side = RNeg(Plinfy) THEN side ELSE RSub(side, d)

\* the entries appended to psOpList during the last sweep that ran to its end
SweepEntries == {psOpList[k] : k \in (run.fin.pre.ps + 1)..run.fin.post.ps}

\* the columns that sweep deleted and that no entry of the sweep names with a row
Standalone ==
    (run.fin.pre.cols \ run.fin.post.cols)
        \ {e.Col.Name : e \in {x \in SweepEntries : x.Row.Name # ""}}

\* C4: the number of ledger entries appended during a sweep equals the number
\* of rows the sweep deleted plus the number of columns it deleted without a
\* row, also when two free column singletons share a row or two singleton rows
\* share a column.
C4_EntriesPerSweep ==
    (pc # "corrupt" /\ run.sweeps >= 1) =>
        run.fin.post.ps - run.fin.pre.ps
            = (run.fin.pre.nrows - run.fin.post.nrows) + Cardinality(Standalone)

\* C5: every row name and every column name that was in the store when
\* ReduceMatrix was called and is absent now is the name of the captured row or
\* of the captured column of a ledger entry.
C5_RemovedAreRecorded ==
    run.runs >= 1 =>
        /\ \A n \in run.rn.rows \ RowNames(Rows) :
             \E k \in 1..Len(psOpList) : psOpList[k].Row.Name = n
        /\ \A n \in run.rn.cols \ ColNames(Cols) :
             \E k \in 1..Len(psOpList) : psOpList[k].Col.Name = n

\* a sweep that ran to its end has removed a row and a column
C5_Witness ==
    /\ run.sweeps >= 1
    /\ pc = "idle"
    /\ run.rn.rows \ RowNames(Rows) # {}
    /\ run.rn.cols \ ColNames(Cols) # {}

\* the active rows of sense E of K that have exactly one element, its coefficient not 0
SingletonRows(K) ==
    {i \in 0..(Len(K.R) - 1) :
        /\ At(K.R, i).State = stateActive
        /\ At(K.R, i).Type = "E"
        /\ Len(At(K.R, i).HasElems) = 1
        /\ At(K.E, At(At(K.R, i).HasElems, 0)).Value # Q(0)}

SingletonCol(K, i) == At(K.C, At(K.E, At(At(K.R, i).HasElems, 0)).InCol).Name

\* b / a of the singleton row i
SingletonValue(K, i) == RDiv(At(K.R, i).RHSlo, At(K.E, At(At(K.R, i).HasElems, 0)).Value)

\* the assignments that give each column of a singleton row the value b / a of
\* one of its singleton rows, and 0 to every other column
SingletonValues(K) ==
    {val \in [ColNames(K.C) -> {Q(0)} \cup {SingletonValue(K, i) : i \in SingletonRows(K)}] :
        \A n \in ColNames(K.C) :
            IF \E i \in SingletonRows(K) : SingletonCol(K, i) = n
            THEN \E i \in SingletonRows(K) : SingletonCol(K, i) = n /\ val[n] = SingletonValue(K, i)
            ELSE val[n] = Q(0)}

\* C6: after delRowSingletons, for a singleton row a * x = b (a # 0, sense E,
\* active), every other row in which x has the coefficient c has each finite
\* RHS side decreased by (b / a) * c and each infinite side unchanged, and a
\* row without such a variable keeps its RHS.
C6_SingletonRhs ==
    (last.op = "delRowSingletons" /\ pc # "corrupt") =>
        \A val \in SingletonValues(last.pre) :
            \A k \in 1..Len(last.pre.R) :
                (last.pre.R[k].Name \in RowNames(Rows) /\ (k - 1) \notin SingletonRows(last.pre)) =>
                    LET old == last.pre.R[k]
                        new == RowByName(Rows, old.Name)
                        d == RowSum(last.pre, old.HasElems, 1, val)
                    IN  /\ new.RHSlo = Decreased(old.RHSlo, d)
                        /\ new.RHSup = Decreased(old.RHSup, d)

\* the active columns of K whose lower bound equals their upper bound
FixedCols(K) ==
    {j \in 1..Len(K.C) : K.C[j].State = stateActive /\ K.C[j].BndLo = K.C[j].BndUp}

\* each fixed column at its value, every other column at 0
FixedValues(K) ==
    [n \in ColNames(K.C) |->
        IF \E j \in FixedCols(K) : K.C[j].Name = n
        THEN K.C[CHOOSE j \in FixedCols(K) : K.C[j].Name = n].BndLo
        ELSE Q(0)]

Satisfies(K, val) ==
    \A k \in 1..Len(K.R) :
        /\ RLe(K.R[k].RHSlo, RowSum(K, K.R[k].HasElems, 1, val))
        /\ RLe(RowSum(K, K.R[k].HasElems, 1, val), K.R[k].RHSup)

\* val, extended with the fixed columns of K at their values
Extended(K, val) ==
    [n \in ColNames(K.C) |-> IF n \in DOMAIN val THEN val[n] ELSE FixedValues(K)[n]]

C9_SecondRunIdle ==
    (run.runs = 2 /\ run.prevExit = "converged" /\ pc # "corrupt") =>
        /\ Len(Rows) = run.rn.nrows
        /\ Len(Cols) = run.rn.ncols
        /\ Len(Elems) = run.rn.elems
        /\ Len(psOpList) = run.rn.ps

\* C11: when postSolve or the recomputation of the objective fails inside
\* CplexSolveProb, the maps of the solution record handed back hold no
\* post-solved entry: the variable map names only columns the solver was given
\* and the constraint map only rows the solver was given.
C11_NoPartialReconstruction ==
    (pc = "done" /\ sol.solved /\ sol.stage = "failed") =>
        /\ DOMAIN sol.VarMap \subseteq ColNames(Cols)
        /\ DOMAIN sol.ConMap \subseteq RowNames(Rows)

\* the sum of coefficient * value of the variable over a coefficient list
RECURSIVE ObjSum(_, _)
ObjSum(coefs, var) ==
    IF coefs = <<>> THEN Q(0)
    ELSE RAdd(ObjSum(SubSeq(coefs, 1, Len(coefs) - 1), var),
              RMul(coefs[Len(coefs)].Value, var[coefs[Len(coefs)].Name].Value))

\* the objective row as it was when CplexSolveProb was called
InputObjective == sol.psRows[sol.objRow + 1]

InputRhs(row) == IF row.Type = "L" THEN row.RHSup ELSE row.RHSlo

\* C13: after a successful CplexSolveProb every row of the input model, of any
\* sense, removed or not, has a constraint record whose Type, Rhs and
\* ScaleFactor are the sense, RHS and scale factor the row had in the input.
C13_ConstraintRecords ==
    (pc = "done" /\ sol.solved /\ sol.stage = "returned") =>
        \A k \in 1..Len(sol.inRows) :
            /\ sol.inRows[k].Name \in DOMAIN sol.ConMap
            /\ sol.ConMap[sol.inRows[k].Name].Type = sol.inRows[k].Type
            /\ sol.ConMap[sol.inRows[k].Name].Rhs = InputRhs(sol.inRows[k])
            /\ sol.ConMap[sol.inRows[k].Name].ScaleFactor = sol.inRows[k].ScaleFactor

\* C14: a variable record made by postSolve for a removed column has reduced
\* cost 0 and status "NA", a constraint record made for a removed row has slack
\* 0, dual 0 and status "NA", and a column removed as a fixed variable has the
\* value of its lower bound and the scale factor its ledger entry captured.
C14_PostSolvedRecords ==
    (pc = "done" /\ sol.solved) =>
        /\ \A n \in (DOMAIN sol.VarMap) \ ColNames(Cols) :
             /\ sol.VarMap[n].ReducedCost = Q(0)
             /\ sol.VarMap[n].Status = "NA"
        /\ \A n \in (DOMAIN sol.ConMap) \ RowNames(Rows) :
             /\ sol.ConMap[n].Slack = Q(0)
             /\ sol.ConMap[n].Dual = Q(0)
             /\ sol.ConMap[n].Status = "NA"
        /\ \A k \in 1..Len(psOpList) :
             (psOpList[k].OpType = "FXV" /\ sol.stage = "returned") =>
                 /\ psOpList[k].Col.Name \in DOMAIN sol.VarMap
                 /\ sol.VarMap[psOpList[k].Col.Name].Value = psOpList[k].Col.BndLo
                 /\ sol.VarMap[psOpList[k].Col.Name].ScaleFactor = psOpList[k].Col.ScaleFactor

\* the scaled model solved with the fixed variable x2 and the singleton row r1
\* removed, while row r2 and column x1 went to the solver
C14_Witness ==
    /\ pc = "done" /\ sol.solved /\ sol.stage = "returned"
    /\ \E k \in 1..Len(psOpList) :
         /\ psOpList[k].OpType = "FXV"
         /\ psOpList[k].Col.BndLo = Q(4)
         /\ psOpList[k].Col.ScaleFactor = Q(7)
    /\ \E k \in 1..Len(psOpList) : psOpList[k].OpType = "RSG"
    /\ "r1" \in (DOMAIN sol.ConMap) \ RowNames(Rows)
    /\ sol.ConMap["r2"].Slack # Q(0)
    /\ sol.VarMap["x1"].ReducedCost # Q(0)

\* the kernels in the order of the spec, and the flags under which each one runs
KernelNames ==
    <<"delNbRows", "delFixedVars", "delRowSingletons", "delFreeColSingls", "delEmptyRows",
      "delEmptyCols">>

KernelRuns(ctl) ==
    <<ctl.DelRowNonbinding, ctl.DelFixedVars \/ ctl.DelRowNonbinding, ctl.DelRowSingleton,
      ctl.DelColSingleton, TRUE, TRUE>>

\* the position of the kernel that ran last in the current sweep, 0 at its start
KernelsDone ==
    IF last.op \in Range(KernelNames) \ {"delEmptyCols"}
    THEN CHOOSE k \in 1..6 : KernelNames[k] = last.op
    ELSE 0

\* the kernel a sweep has to call next
KernelDue ==
    KernelNames[CHOOSE k \in (KernelsDone + 1)..6 :
                    /\ KernelRuns(psc)[k]
                    /\ \A j \in (KernelsDone + 1)..(k - 1) : ~KernelRuns(psc)[j]]

\* C15: within a sweep ReduceMatrix calls the kernels in the order non-binding
\* rows, fixed variables, row singletons, free column singletons, empty rows,
\* empty columns; each step of a sweep calls the first kernel after the last
\* one called whose flag allows it (fixed variables also under
\* DelRowNonbinding, empty rows and empty columns always).
C15_KernelOrder ==
    [][(pc \in {"nb", "fx", "rsg", "fcs", "mtr", "mtc"}) => (last'.op = KernelDue)]_vars

\* the second sweep of a run with DelRowNonbinding and DelColSingleton only has
\* come to its last kernel
C15_Witness ==
    /\ pc = "mtc"
    /\ run.i = 2
    /\ last.op = "delEmptyRows"
    /\ psc.DelRowNonbinding /\ ~psc.DelFixedVars /\ ~psc.DelRowSingleton /\ psc.DelColSingleton

\* the rows and columns the last sweep that ran to its end removed
SweepRemoved ==
    (run.fin.pre.nrows - run.fin.post.nrows) + (run.fin.pre.ncols - run.fin.post.ncols)

\* C16: the count of a sweep is the number of rows and columns all its kernels
\* removed, empty rows included: ReduceMatrix stops early exactly after a sweep
\* that removed nothing, a sweep that removed something is followed by another
\* one while fewer than MaxIter sweeps have run, and the total of the counts is
\* the number of rows and columns removed since the call.
C16_SweepCount ==
    (run.sweeps >= 1 /\ pc # "corrupt" /\ last.op = "delEmptyCols" /\ last.ok) =>
        /\ run.exit = "converged" <=> SweepRemoved = 0
        /\ (SweepRemoved > 0 /\ run.sweeps < psc.MaxIter) => run.exit = ""
        /\ run.numChanges = (run.rn.nrows - Len(Rows)) + (run.rn.ncols - Len(Cols))

\* the kernel calls a sweep still has before it, counted from the call at pc
SweepRank ==
    CASE pc = "nb" -> 6
      [] pc = "fx" -> 5
      [] pc = "rsg" -> 4
      [] pc = "fcs" -> 3
      [] pc = "mtr" -> 2
      [] pc = "mtc" -> 1
      [] OTHER -> 0

\* an upper bound of the kernel calls the running call of ReduceMatrix can
\* still make: the rest of this sweep and the sweeps MaxIter leaves after it
CallsLeft ==
    IF pc \in {"nb", "fx", "rsg", "fcs", "mtr", "mtc"}
    THEN 6 * (psc.MaxIter - run.sweeps - 1) + SweepRank
    ELSE 0

\* C17: ReduceMatrix terminates and runs at most MaxIter sweeps: every kernel
\* call of a running ReduceMatrix lowers a bound of the calls it can still
\* make, which never falls below zero, and the sweeps that ran to their end
\* never exceed MaxIter; with MaxIter <= 0 a call runs no kernel and leaves
\* Rows, Cols, Elems and the ledger as they were.
C17_Terminates ==
    [][/\ run'.sweeps <= (IF psc.MaxIter > 0 THEN psc.MaxIter ELSE 0)
       /\ (pc \in {"nb", "fx", "rsg", "fcs", "mtr", "mtc"}) =>
              (CallsLeft' < CallsLeft /\ CallsLeft' >= 0)
       /\ (psc.MaxIter <= 0) =>
              /\ pc' \in {"idle", "reduced", "done"}
              /\ last'.op \notin Range(KernelNames)
              /\ KNow' = KNow]_vars

\* a call with MaxIter = 1 that stopped after its only sweep although the
\* sweep had removed something
C17_Witness ==
    /\ pc = "idle"
    /\ psc.MaxIter = 1
    /\ run.sweeps = 1
    /\ run.exit = "maxiter"
    /\ run.numChanges > 0

\* the rows on which the last call of delRowSingletons met a zero coefficient
ZeroCoefRows ==
    IF last.op = "delRowSingletons"
    THEN {last.log[k].name : k \in {j \in DOMAIN last.log : last.log[j].lvl = "ERR"}}
    ELSE {}

\* the column of the single element of the row called name, before the call
ZeroCoefCol(name) ==
    LET i == CHOOSE k \in 1..Len(last.pre.R) : last.pre.R[k].Name = name
    IN  At(last.pre.E, At(last.pre.R[i].HasElems, 0)).InCol

\* C18: when delRowSingletons meets an active E singleton row whose coefficient
\* is zero it returns an error, so that ReduceMatrix ends with an error, the
\* row and its column keep the state they had, and the call has appended no
\* ledger entry for that row.
C18_ZeroCoefIsError ==
    \A name \in ZeroCoefRows :
        /\ ~last.ok
        /\ run.exit = "error"
        /\ \E k \in 1..Len(Rows) : Rows[k].Name = name /\ Rows[k].State = stateActive
        /\ At(Cols, ZeroCoefCol(name)).State = At(last.pre.C, ZeroCoefCol(name)).State
        /\ \A k \in (Len(last.pre.ps) + 1)..Len(psOpList) : psOpList[k].Row.Name # name

\* the same without the error: the kernel has met the zero coefficient, left
\* the row and its column as they were and appended no entry for the row
C18_ZeroCoefLeftAlone ==
    \A name \in ZeroCoefRows :
        /\ \E k \in 1..Len(Rows) : Rows[k].Name = name /\ Rows[k].State = stateActive
        /\ At(Cols, ZeroCoefCol(name)).State = At(last.pre.C, ZeroCoefCol(name)).State
        /\ \A k \in (Len(last.pre.ps) + 1)..Len(psOpList) : psOpList[k].Row.Name # name

\* CplexSolveProb was called on the model minimize x0 + x1 subject to 2 x0 = 6,
\* x0 + x1 >= 5 with row-singleton removal alone and at least one sweep
SingletonRowCall ==
    /\ sol.psRows = translateAllRows(SingletonRowModel.st)
    /\ sol.cols = {"x0", "x1"}
    /\ psc.DelRowSingleton /\ ~psc.DelRowNonbinding /\ ~psc.DelColSingleton /\ ~psc.DelFixedVars
    /\ psc.MaxIter >= 1

\* C19: on minimize x + y subject to 2x = 6, x + y >= 5, x, y >= 0 ReduceMatrix
\* with row-singleton removal removes column x (x0) and the row 2x = 6 (r0) and
\* leaves the second row (r1) as y >= 2; post-solve on the answer y = 2 gives
\* x = 3 and the objective 5, and the constraint map holds both constraints.
C19_RowSingletonExample ==
    /\ (SingletonRowCall /\ pc \in {"reduced", "done"}) =>
           /\ ColNames(Cols) = {"x1"}
           /\ RowNames(Rows) = {"r1", "r2"}
           /\ \E k \in 1..Len(Rows) :
                 /\ Rows[k].Name = "r1"
                 /\ Rows[k].Type = "G"
                 /\ Rows[k].RHSlo = Q(2)
                 /\ translateRow(Cur, Rows[k]).Coef = <<[Name |-> "x1", Value |-> Q(1)]>>
    /\ (SingletonRowCall /\ pc = "done" /\ sol.stage = "returned" /\ sol.solved
           /\ sol.VarMap["x1"].Value = Q(2)) =>
           /\ sol.VarMap["x0"].Value = Q(3)
           /\ sol.ObjVal = Q(5)
           /\ {"r0", "r1"} \subseteq DOMAIN sol.ConMap
           /\ sol.ConMap["r0"].Type = "E" /\ sol.ConMap["r0"].Rhs = Q(6)
           /\ sol.ConMap["r1"].Type = "G" /\ sol.ConMap["r1"].Rhs = Q(5)

\* the call on that model has returned with the solver's answer y = 2
C19_Witness ==
    /\ SingletonRowCall
    /\ pc = "done" /\ sol.stage = "returned" /\ sol.solved
    /\ psc.RunSolver
    /\ sol.VarMap["x1"].Value = Q(2)
    /\ sol.VarMap["x0"].Value = Q(3)
    /\ Len(psOpList) = 1 /\ psOpList[1].OpType = psopRowSingltn

\* CplexSolveProb was called on the model minimize x0 subject to x0 + x1 = 7,
\* x1 >= 0, x0 free with column-singleton removal and at least one sweep
FreeObjColCall ==
    /\ sol.psRows = translateAllRows(FreeObjColModel.st)
    /\ sol.cols = {"x0", "x1"}
    /\ psc.DelColSingleton
    /\ psc.MaxIter >= 1

\* C20: on minimize x subject to x + y = 7, y >= 0, x free ReduceMatrix with
\* column-singleton removal removes the column x (x0) and the row x + y = 7
\* (r1), and post-solve on the answer y = 0 gives x = 7.
C20_FreeColumnExample ==
    /\ (FreeObjColCall /\ pc \in {"reduced", "done"} /\ sol.stage # "failed") =>
           /\ "x0" \notin ColNames(Cols)
           /\ "r1" \notin RowNames(Rows)
    /\ (FreeObjColCall /\ pc = "done" /\ sol.stage = "returned" /\ sol.solved
           /\ sol.VarMap["x1"].Value = Q(0)) =>
           sol.VarMap["x0"].Value = Q(7)

\* the names of the rows of sense N in a list of rows
NonbindingNames(R) == {R[k].Name : k \in {j \in 1..Len(R) : R[j].Type = "N"}}

\* C21: with DelRowNonbinding every row of sense N of the input is removed by
\* the first sweep with an NBR ledger entry, and after post-solve the row is in
\* the constraint map with slack 0 and dual 0.
C21_NonbindingRows ==
    /\ (last.op = "delNbRows" /\ last.ok /\ run.i = 1 /\ run.sweeps = 0) =>
           \A name \in NonbindingNames(last.pre.R) :
               /\ name \notin RowNames(Rows)
               /\ \E k \in 1..Len(psOpList) :
                     psOpList[k].OpType = psopNbRow /\ psOpList[k].Row.Name = name
    /\ (pc = "done" /\ sol.solved /\ sol.stage = "returned" /\ psc.DelRowNonbinding
           /\ psc.MaxIter >= 1) =>
           \A name \in NonbindingNames(sol.inRows) :
               /\ name \in DOMAIN sol.ConMap
               /\ sol.ConMap[name].Slack = Q(0)
               /\ sol.ConMap[name].Dual = Q(0)

\* a solve with DelRowNonbinding has post-solved the NBR entry of an input
\* row of sense N that the first sweep had removed
C21_Witness ==
    /\ pc = "done" /\ sol.solved /\ sol.stage = "returned"
    /\ psc.DelRowNonbinding /\ psc.RunSolver
    /\ \E name \in NonbindingNames(sol.inRows) :
          /\ name \notin RowNames(Rows)
          /\ \E k \in 1..Len(psOpList) :
                psOpList[k].OpType = psopNbRow /\ psOpList[k].Row.Name = name
          /\ sol.ConMap[name].Slack = Q(0)

\* the rows the last call of delEmptyRows found active and without elements
EmptyRowsMet ==
    IF last.op = "delEmptyRows"
    THEN {k \in 1..Len(last.pre.R) :
             last.pre.R[k].State = stateActive /\ Len(last.pre.R[k].HasElems) = 0}
    ELSE {}

\* the names the last call logged a warning for
WarnedNames == {last.log[k].name : k \in {j \in DOMAIN last.log : last.log[j].lvl = "WARN"}}

\* an RHS range with a finite bound other than 0 on one side only
OneSidedRhs(row) ==
    \/ row.RHSlo = RNeg(Plinfy) /\ row.RHSup # Plinfy /\ row.RHSup # Q(0)
    \/ row.RHSup = Plinfy /\ row.RHSlo # RNeg(Plinfy) /\ row.RHSlo # Q(0)

\* C22: delEmptyRows removes every active row without elements; it logs no
\* warning for such a row with RHS range [0, 0], and logs a warning for one
\* whose range has a finite bound other than 0 on one side only and for one
\* with RHS range [0, 5].
C22_EmptyRowWarnings ==
    (last.ok /\ pc # "corrupt") =>
        \A k \in EmptyRowsMet :
            /\ last.pre.R[k].Name \notin RowNames(Rows)
            /\ (last.pre.R[k].RHSlo = Q(0) /\ last.pre.R[k].RHSup = Q(0)) =>
                   last.pre.R[k].Name \notin WarnedNames
            /\ OneSidedRhs(last.pre.R[k]) => last.pre.R[k].Name \in WarnedNames
            /\ (last.pre.R[k].RHSlo = Q(0) /\ last.pre.R[k].RHSup = Q(5)) =>
                   last.pre.R[k].Name \in WarnedNames

\* the same without the range [0, 5]
C22_EmptyRowsRemoved ==
    (last.ok /\ pc # "corrupt") =>
        \A k \in EmptyRowsMet :
            /\ last.pre.R[k].Name \notin RowNames(Rows)
            /\ (last.pre.R[k].RHSlo = Q(0) /\ last.pre.R[k].RHSup = Q(0)) =>
                   last.pre.R[k].Name \notin WarnedNames
            /\ OneSidedRhs(last.pre.R[k]) => last.pre.R[k].Name \in WarnedNames

\* C23: when the MPS input path is not empty and equals the solver-solution
\* output path, the reduced-MPS output path or the PSOP output path,
\* CplexSolveProb returns an error before ReduceMatrix is called, with no
\* ledger entry appended and no output file written.
C23_OverwriteRejected ==
    (psc.FileInMps # "" /\ psc.FileInMps \in {psc.FileOutSoln, psc.FileOutMpsRdcd, psc.FileOutPsop}) =>
        /\ pc \in {"idle", "done"}
        /\ run.runs = 0
        /\ psOpList = <<>>
        /\ sol.written = {}
        /\ pc = "done" => (sol.stage = "failed" /\ sol.err \in {"read", "overwrite"})

\* a call whose PSOP output path is the input path has read the file and
\* returned the error
C23_Witness ==
    /\ pc = "done"
    /\ psc.FileInMps = "a.mps" /\ psc.FileOutPsop = "a.mps" /\ psc.FileOutSoln = "b.out"
    /\ sol.err = "overwrite"
    /\ Rows = MpsFileModel.st.R

\* the call that made the step had an index below 0 or at or above the length
\* of its list
IndexOutOfRange ==
    \/ /\ last'.op \in {"swapRows", "DelRow"}
       /\ last'.a \notin 0..(Len(Rows) - 1)
    \/ /\ last'.op \in {"swapCols", "DelCol"}
       /\ last'.a \notin 0..(Len(Cols) - 1)
    \/ /\ last'.op = "swapRows"
       /\ last'.b \notin 0..(Len(Rows) - 1)
    \/ /\ last'.op = "swapCols"
       /\ last'.b \notin 0..(Len(Cols) - 1)

\* C24: swapRows, swapCols, DelRow and DelCol called with an index below 0 or
\* at or above the length of the list return an error and leave Rows, Cols and
\* Elems unchanged.
C24_IndexRejected ==
    [][IndexOutOfRange => (~last'.ok /\ Rows' = Rows /\ Cols' = Cols /\ Elems' = Elems)]_vars

\* swapCols was called with a valid source and the length of Cols as
\* destination on a store with elements, and returned an error
C24_Witness ==
    /\ last.op = "swapCols"
    /\ last.a = 0
    /\ last.b = Len(Cols)
    /\ ~last.ok
    /\ Len(Elems) > 0

\* the sum over the elements of row r, from the last one down, of the value of
\* the element times the value entered for its column
RECURSIVE EnteredSum(_, _, _)
EnteredSum(r, k, vals) ==
    IF k = 0 THEN Q(0)
    ELSE RAdd(EnteredSum(r, k - 1, vals),
              RMul(Elems[Rows[r].HasElems[k] + 1].Value,
                   vals[Cols[Elems[Rows[r].HasElems[k] + 1].InCol + 1].Name]))

FreeSingletons ==
    {j \in 1..Len(last.pre.C) :
        /\ Len(last.pre.C[j].HasElems) = 1
        /\ last.pre.C[j].BndLo = RNeg(Plinfy)
        /\ last.pre.C[j].BndUp = Plinfy
        /\ At(last.pre.E, At(last.pre.C[j].HasElems, 0)).InRow # ObjRow}

\* the name of the row of the single element of column j
HostRow(j) == At(last.pre.R, At(last.pre.E, At(last.pre.C[j].HasElems, 0)).InRow).Name

\* the ledger entries the last kernel call appended
NewEntries == {k \in (Len(last.pre.ps) + 1)..Len(psOpList) : TRUE}

\* C26: delFreeColSingls removes a column together with its row exactly when
\* the column has one element, bounds -Plinfy and Plinfy and the element is not
\* in the objective row; every other column and every row that hosts no such
\* column survive, and one FCS entry with the column and its row is appended
\* for each removed column.
C26_FreeColumnSingletons ==
    (last.op = "delFreeColSingls" /\ last.ok /\ pc # "corrupt") =>
        /\ ColNames(Cols) = ColNames(last.pre.C) \ {last.pre.C[j].Name : j \in FreeSingletons}
        /\ RowNames(Rows) = RowNames(last.pre.R) \ {HostRow(j) : j \in FreeSingletons}
        /\ Cardinality(NewEntries) = Cardinality(FreeSingletons)
        /\ \A j \in FreeSingletons :
              \E k \in NewEntries :
                  /\ psOpList[k].OpType = psopFreeCol
                  /\ psOpList[k].Col.Name = last.pre.C[j].Name
                  /\ psOpList[k].Row.Name = HostRow(j)

\* no row and no column of the store before the last kernel call was tagged
EntryUntagged ==
    /\ \A k \in 1..Len(last.pre.R) : last.pre.R[k].State # stateDelete
    /\ \A k \in 1..Len(last.pre.C) : last.pre.C[k].State # stateDelete

\* the same for a call of delFreeColSingls that no earlier kernel has left
\* tagged rows or columns to
C26_FreeColumnSingletonsUntagged ==
    (last.op = "delFreeColSingls" /\ last.ok /\ pc # "corrupt" /\ EntryUntagged) =>
        /\ ColNames(Cols) = ColNames(last.pre.C) \ {last.pre.C[j].Name : j \in FreeSingletons}
        /\ RowNames(Rows) = RowNames(last.pre.R) \ {HostRow(j) : j \in FreeSingletons}
        /\ Cardinality(NewEntries) = Cardinality(FreeSingletons)
        /\ \A j \in FreeSingletons :
              \E k \in NewEntries :
                  /\ psOpList[k].OpType = psopFreeCol
                  /\ psOpList[k].Col.Name = last.pre.C[j].Name
                  /\ psOpList[k].Row.Name = HostRow(j)

\* the active singleton rows of the store before the last kernel call: those
\* of sense E, and the others
SingletonRowsE ==
    {k \in 1..Len(last.pre.R) :
        /\ last.pre.R[k].State = stateActive
        /\ Len(last.pre.R[k].HasElems) = 1
        /\ last.pre.R[k].Type = "E"}

SingletonRowsOther ==
    {k \in 1..Len(last.pre.R) :
        /\ last.pre.R[k].State = stateActive
        /\ Len(last.pre.R[k].HasElems) = 1
        /\ last.pre.R[k].Type # "E"}

\* the column (index from 0) of the single element of the singleton row k
SingleElemCol(k) == At(last.pre.E, At(last.pre.R[k].HasElems, 0)).InCol

\* the columns of the E singleton rows
PinnedCols == {SingleElemCol(k) : k \in SingletonRowsE}

\* row k has no element in a column of an E singleton row
Untouched(k) ==
    \A h \in Range(last.pre.R[k].HasElems) : At(last.pre.E, h).InCol \notin PinnedCols

\* C27: delRowSingletons eliminates only singleton rows of sense E: an active
\* singleton row of another sense stays, untagged, and gets no ledger entry;
\* its column keeps its bounds unless an E singleton row lies on that column,
\* and a row without an element in the column of an E singleton row keeps its
\* RHS.
C27_OnlyEqualitySingletons ==
    (last.op = "delRowSingletons") =>
        /\ \A k \in SingletonRowsOther :
              /\ \E r \in 1..Len(Rows) :
                    Rows[r].Name = last.pre.R[k].Name /\ Rows[r].State = stateActive
              /\ \A e \in NewEntries : psOpList[e].Row.Name # last.pre.R[k].Name
              /\ SingleElemCol(k) \notin PinnedCols =>
                    \E c \in 1..Len(Cols) :
                        /\ Cols[c].Name = At(last.pre.C, SingleElemCol(k)).Name
                        /\ Cols[c].BndLo = At(last.pre.C, SingleElemCol(k)).BndLo
                        /\ Cols[c].BndUp = At(last.pre.C, SingleElemCol(k)).BndUp
        /\ \A k \in 1..Len(last.pre.R) :
              (k \notin SingletonRowsE /\ Untouched(k)) =>
                  \E r \in 1..Len(Rows) :
                      /\ Rows[r].Name = last.pre.R[k].Name
                      /\ Rows[r].RHSlo = last.pre.R[k].RHSlo
                      /\ Rows[r].RHSup = last.pre.R[k].RHSup

\* delRowSingletons has run on a store with an E singleton row and a G
\* singleton row on another column; the E row has gone, the G row has stayed
C27_Witness ==
    /\ last.op = "delRowSingletons" /\ last.ok /\ pc # "corrupt"
    /\ \E k \in SingletonRowsOther :
          /\ last.pre.R[k].Type = "G"
          /\ SingleElemCol(k) \notin PinnedCols
          /\ last.pre.R[k].Name \in RowNames(Rows)
    /\ \E k \in SingletonRowsE : last.pre.R[k].Name \notin RowNames(Rows)

\* C28: a kernel tags and records only active rows and columns: a row or
\* column in state locked or delete when the kernel is entered is in the store
\* when it returns, with the fields it had, and no ledger entry the kernel
\* appended names it.
C28_OnlyActiveTouched ==
    (last.op \in Range(KernelNames) /\ pc # "corrupt") =>
        /\ \A k \in 1..Len(last.pre.R) :
              (last.pre.R[k].State # stateActive) =>
                  /\ \E r \in 1..Len(Rows) : Plain(Rows[r]) = Plain(last.pre.R[k])
                  /\ \A e \in NewEntries : psOpList[e].Row.Name # last.pre.R[k].Name
        /\ \A k \in 1..Len(last.pre.C) :
              (last.pre.C[k].State # stateActive) =>
                  /\ \E c \in 1..Len(Cols) : Plain(Cols[c]) = Plain(last.pre.C[k])
                  /\ \A e \in NewEntries : psOpList[e].Col.Name # last.pre.C[k].Name

\* the store the scan of the last kernel started from: delNbRows runs on what
\* TightenBounds left
ScanEntry ==
    IF last.op = "delNbRows" THEN TightenBounds(last.pre, psc.MaxIter).K ELSE last.pre

\* what the scan loop of the last kernel left, before the epilogue of the kernel
ScanLeft ==
    IF last.op = "delNbRows" THEN delNbRowsScan(ScanEntry, 0)
    ELSE IF last.op = "delFixedVars" THEN delFixedVarsScan(ScanEntry, 0)
    ELSE IF last.op = "delRowSingletons" THEN delRowSingletonsScan(ScanEntry, 0).K
    ELSE IF last.op = "delFreeColSingls" THEN delFreeColSinglsScan(ScanEntry, ObjRow, 0)
    ELSE IF last.op = "delEmptyRows" THEN delEmptyRowsScan(ScanEntry, 0, <<>>).K
    ELSE delEmptyColsScan(ScanEntry, 0, <<>>).K

\* the scan of the last kernel was entered
ScanRan ==
    /\ last.op \in Range(KernelNames)
    /\ last.op = "delNbRows" => TightenBounds(last.pre, psc.MaxIter).ok

\* the rows and columns the scan left in state delete
TaggedRows == {k \in 1..Len(ScanLeft.R) : ScanLeft.R[k].State = stateDelete}

TaggedCols == {k \in 1..Len(ScanLeft.C) : ScanLeft.C[k].State = stateDelete}

\* C29: within one call of a kernel no row or column is deleted before the
\* last tagging: when the scan loop ends every row, column and element is at
\* the index it had at kernel entry, with the element lists it had, and the
\* ledger already holds every entry of the call, each naming a row or column
\* the scan tagged; what the kernel returns is that store itself when the scan
\* returned early, and otherwise that store less rows and columns that were in
\* state delete when the scan ended, the others keeping their fields.
C29_DeletionsAfterTagging ==
    ScanRan =>
        /\ Len(ScanLeft.R) = Len(ScanEntry.R)
        /\ \A k \in 1..Len(ScanEntry.R) :
              /\ ScanLeft.R[k].Name = ScanEntry.R[k].Name
              /\ ScanLeft.R[k].HasElems = ScanEntry.R[k].HasElems
        /\ Len(ScanLeft.C) = Len(ScanEntry.C)
        /\ \A k \in 1..Len(ScanEntry.C) :
              /\ ScanLeft.C[k].Name = ScanEntry.C[k].Name
              /\ ScanLeft.C[k].HasElems = ScanEntry.C[k].HasElems
        /\ ScanLeft.E = ScanEntry.E
        /\ psOpList = ScanLeft.ps
        /\ \A e \in NewEntries :
              /\ psOpList[e].Row.Name # "" =>
                    \E k \in TaggedRows : ScanEntry.R[k].Name = psOpList[e].Row.Name
              /\ psOpList[e].Col.Name # "" =>
                    \E k \in TaggedCols : ScanEntry.C[k].Name = psOpList[e].Col.Name
        /\ IF last.op = "delRowSingletons" /\ delRowSingletonsScan(ScanEntry, 0).zero
           THEN StoreOf(KNow) = StoreOf(ScanLeft)
           ELSE (last.ok /\ pc # "corrupt") =>
                    /\ \A k \in (1..Len(ScanLeft.R)) \ TaggedRows :
                          ScanLeft.R[k].Name \in RowNames(Rows)
                    /\ \A k \in (1..Len(ScanLeft.C)) \ TaggedCols :
                          ScanLeft.C[k].Name \in ColNames(Cols)
                    /\ \A r \in 1..Len(Rows) :
                          \E k \in 1..Len(ScanLeft.R) : Plain(Rows[r]) = Plain(ScanLeft.R[k])
                    /\ \A c \in 1..Len(Cols) :
                          \E k \in 1..Len(ScanLeft.C) : Plain(Cols[c]) = Plain(ScanLeft.C[k])

\* delRowSingletons has tagged a row and a column that were not the last of
\* their lists, recorded them and then deleted them
C29_Witness ==
    /\ last.op = "delRowSingletons" /\ last.ok /\ pc # "corrupt"
    /\ \E k \in TaggedRows : k < Len(ScanEntry.R) /\ ScanEntry.R[k].State = stateActive
    /\ \E k \in TaggedCols : k < Len(ScanEntry.C) /\ ScanEntry.C[k].State = stateActive
    /\ NewEntries # {}
    /\ Len(Rows) < Len(ScanEntry.R)
    /\ Len(Cols) < Len(ScanEntry.C)

\* C30: tagging a row or column that is already in state delete in the same
\* kernel pass is a no-op: delRowSingletons appends no second entry for a
\* column it has tagged and delFreeColSingls no second entry for a row it has
\* tagged, so no two entries of one call name the same column or the same row.
C30_RetagIsNoOp ==
    last.op \in {"delRowSingletons", "delFreeColSingls"} =>
        \A e \in NewEntries : \A f \in NewEntries :
            (e # f) =>
                /\ psOpList[e].Col.Name # psOpList[f].Col.Name
                /\ psOpList[e].Row.Name # psOpList[f].Row.Name

\* C30: a column that delRowSingletons has pinned and tagged keeps the bounds
\* of its first ledger entry of the call.
C30_RetagKeepsBounds ==
    last.op = "delRowSingletons" =>
        \A e \in NewEntries : \A f \in NewEntries :
            (psOpList[e].Col.Name = psOpList[f].Col.Name) =>
                psOpList[e].Col.BndLo = psOpList[f].Col.BndLo

\* the rows (columns) in state delete when the last delTaggedRows
\* (delTaggedCols) was called
SweptList == IF last.op = "delTaggedRows" THEN last.pre.R ELSE last.pre.C

LeftList == IF last.op = "delTaggedRows" THEN Rows ELSE Cols

SweptTagged == {k \in 1..Len(SweptList) : SweptList[k].State = stateDelete}

\* the rows (columns) the last delTaggedRows (delTaggedCols) left are exactly
\* those that were not in state delete, with the fields they had, the count
\* handed back is the number that were in state delete, and the other list has
\* the entries it had
SweptExactly ==
    /\ last.n = Cardinality(SweptTagged)
    /\ Len(LeftList) = Len(SweptList) - Cardinality(SweptTagged)
    /\ \A k \in (1..Len(SweptList)) \ SweptTagged :
          \E r \in 1..Len(LeftList) : Plain(LeftList[r]) = Plain(SweptList[k])
    /\ \A r \in 1..Len(LeftList) : LeftList[r].State # stateDelete
    /\ last.op = "delTaggedRows" =>
          [k \in 1..Len(Cols) |-> Plain(Cols[k])]
              = [k \in 1..Len(last.pre.C) |-> Plain(last.pre.C[k])]
    /\ last.op = "delTaggedCols" =>
          [k \in 1..Len(Rows) |-> Plain(Rows[k])]
              = [k \in 1..Len(last.pre.R) |-> Plain(last.pre.R[k])]

\* C31: for any placement of the tagged entries delTaggedRows (delTaggedCols)
\* gets no error from DelRow (DelCol), no index it passes being out of range,
\* runs to its end, removes every row (column) in state delete and no other,
\* and reports the number removed.
C31_TaggedRemoved ==
    (last.op \in {"delTaggedRows", "delTaggedCols"}) =>
        /\ last.ok
        /\ ~last.panic
        /\ SweptExactly

\* C31: delTaggedRows (delTaggedCols) never passes an index that DelRow
\* (DelCol) rejects, and each call that was not stopped inside DelRow (DelCol)
\* has removed exactly the tagged rows (columns) and counted them.
C31_TaggedRemovedWhenReturned ==
    (last.op \in {"delTaggedRows", "delTaggedCols"}) =>
        /\ last.ok
        /\ ~last.panic => SweptExactly

\* C31: on a store that the deletions leave cross-indexed the loops of the two
\* functions are the loops the kernels of ReduceMatrix run.
C31_SameAsKernels ==
    (last.op \in {"delTaggedRows", "delTaggedCols"} /\ ~last.bad) =>
        LET d == IF last.op = "delTaggedRows" THEN delTaggedRows(last.pre, 0)
                 ELSE delTaggedCols(last.pre)
        IN  /\ ~d.bad
            /\ d.ok = last.ok
            /\ d.st = Cur
            /\ d.numDltd = last.n

\* the ledger the last step found is the beginning of the ledger it left
LedgerKept ==
    /\ Len(psOpList) >= Len(last.pre.ps)
    /\ SubSeq(psOpList, 1, Len(last.pre.ps)) = last.pre.ps

\* the column names and values of the elements of the row called name in st
RowCoefs(st, name) ==
    {<<t[2], t[3]>> : t \in {u \in Triples(st.R, st.C, st.E) : u[1] = name}}

\* every entry the last kernel appended for a row lists that row's
\* coefficients as the store held them when the scan of the kernel began:
\* one item for each element, the name of its column and its value
CapturedAsTagged ==
    ScanRan =>
        \A e \in NewEntries :
            (psOpList[e].Row.Name # "") =>
                \E k \in 1..Len(ScanEntry.R) :
                    /\ ScanEntry.R[k].Name = psOpList[e].Row.Name
                    /\ Len(psOpList[e].Row.Coef) = Len(ScanEntry.R[k].HasElems)
                    /\ {<<psOpList[e].Row.Coef[j].Name, psOpList[e].Row.Coef[j].Value>> :
                            j \in 1..Len(psOpList[e].Row.Coef)}
                          = RowCoefs(StoreOf(ScanEntry), psOpList[e].Row.Name)

\* C32: during ReduceMatrix the ledger only grows: every step of a call, a
\* kernel of any sweep with its tagging, RHS and bound updates, swaps and
\* deletions, leaves the entries it found where they were and as they were,
\* and the entries it appends for rows name the columns of the row by name
\* with the values the elements of the row had when the row was tagged.
C32_LedgerOnlyGrows ==
    (last.op = "ReduceMatrix" \/ last.op \in Range(KernelNames)) =>
        /\ LedgerKept
        /\ CapturedAsTagged

\* an entry captured a row with two coefficients in an earlier kernel call;
\* a later kernel has appended entries, one of the columns the first entry
\* names is no longer in the store, and the first entry still names it
C32_Witness ==
    /\ last.op \in Range(KernelNames)
    /\ Len(last.pre.ps) >= 1
    /\ NewEntries # {}
    /\ Len(psOpList[1].Row.Coef) >= 2
    /\ \E j \in 1..Len(psOpList[1].Row.Coef) :
          psOpList[1].Row.Coef[j].Name \notin ColNames(Cols)
    /\ \E e \in NewEntries : Len(psOpList[e].Row.Coef) >= 2

\* the map m without the names outside S
Restrict(m, S) == [n \in (DOMAIN m) \cap S |-> m[n]]

\* the maps of a solved run as the solver gave them: the records of the rows
\* and columns still in the store
ReducedCon == Restrict(sol.ConMap, RowNames(Rows))

ReducedVar == Restrict(sol.VarMap, ColNames(Cols))

\* postSolve, given the reduced solution and the ledger entry i alone, leaves
\* both maps as they were
EntryLeavesMaps(i) ==
    LET p == postSolve(<<psOpList[i]>>, ReducedCon, ReducedVar)
    IN  /\ p.ok
        /\ p.con = ReducedCon
        /\ p.var = ReducedVar

\* C33: postSolve performs no reconstruction for a ledger entry of kind NbRow,
\* EmptyRow or EmptyCol: the variable map and the constraint map are the same
\* after the entry as before it.
C33_NoReconstruction ==
    (pc = "done" /\ sol.solved /\ sol.stage = "returned") =>
        \A i \in 1..Len(psOpList) :
            (psOpList[i].OpType \in {psopNbRow, psopEmptyRow, psopEmptyCol}) =>
                EntryLeavesMaps(i)

\* C33: the same for the entries of kind NbRow and EmptyRow alone; and a column
\* of an EmptyCol entry is in the variable map of a run that returned, with
\* value 0, though the solver was not given it.
C33_RowEntriesSkipped ==
    (pc = "done" /\ sol.solved /\ sol.stage = "returned") =>
        \A i \in 1..Len(psOpList) :
            /\ (psOpList[i].OpType \in {psopNbRow, psopEmptyRow}) => EntryLeavesMaps(i)
            /\ (psOpList[i].OpType = psopEmptyCol /\ psOpList[i].Col.Name \notin ColNames(Cols)) =>
                  /\ psOpList[i].Col.Name \in DOMAIN sol.VarMap
                  /\ sol.VarMap[psOpList[i].Col.Name].Value = Q(0)

\* what is left of the sweeps completed before the kernel that ran last: no
\* name deleted by them is back, and the ledger they wrote is a prefix of the
\* ledger now
SweepsKept ==
    /\ RowNames(Rows) \subseteq run.sw.rows
    /\ ColNames(Cols) \subseteq run.sw.cols
    /\ run.sw.rows \subseteq run.rn.rows
    /\ run.sw.cols \subseteq run.rn.cols
    /\ run.sw.ps <= Len(last.pre.ps)
    /\ Len(last.pre.ps) <= Len(psOpList)
    /\ SubSeq(psOpList, 1, Len(last.pre.ps)) = last.pre.ps

\* C34: when a kernel of a sweep (bound tightening included) returns an error,
\* ReduceMatrix returns an error at once: no kernel of that sweep or of a later
\* sweep is due any more, and the deletions and the ledger entries of the
\* sweeps completed before it are still in place.
C34_ErrorStopsRun ==
    (last.op \in Range(KernelNames) /\ ~last.ok) =>
        /\ run.exit = "error"
        /\ pc \notin {"nb", "fx", "rsg", "fcs", "mtr", "mtc"}
        /\ SweepsKept

\* a kernel fails in a sweep that follows a completed sweep which deleted
\* something and wrote to the ledger
C34_Witness ==
    /\ last.op \in Range(KernelNames)
    /\ ~last.ok
    /\ run.exit = "error"
    /\ run.sweeps >= 1
    /\ run.sw.ps >= 1
    /\ run.sw.nrows < run.rn.nrows

\* the errors postSolve returns
PostSolveErrors == {"unable to find value", "unable to find coefficient", "Unexpected operation"}

\* C35: on the ledger ReduceMatrix has produced and a reduced solution that has
\* a value for every column left in the store, postSolve returns no error:
\* every FreeCol entry finds the values of the other variables of its row and
\* every RowSingleton entry a nonzero coefficient for its column.
C35_PostSolveReturnsNoError ==
    (pc = "done" /\ sol.solved) => sol.err \notin PostSolveErrors

\* C35, the part on RowSingleton entries: the row captured by such an entry
\* has a nonzero coefficient for the entry's column.
C35_SingletonsFindCoef ==
    \A i \in 1..Len(psOpList) :
        psOpList[i].OpType = psopRowSingltn => SingletonCoef(psOpList[i], 1) # Q(0)

\* the row of the model CplexSolveProb was called on that has the name of the
\* row captured by a ledger entry
InputRowOf(it) == sol.inRows[CHOOSE k \in 1..Len(sol.inRows) : sol.inRows[k].Name = it.Row.Name]

\* the captured row still had every element the input row had, so that no
\* reduction had moved its right-hand side when it was removed
CapturedWhole(it) == Len(it.Row.Coef) = Len(InputRowOf(it).HasElems)

\* the sum of coefficient times value over the captured coefficient list
RECURSIVE CapturedSum(_, _, _)
CapturedSum(coefs, j, varMap) ==
    IF j > Len(coefs) THEN Q(0)
    ELSE RAdd(RMul(coefs[j].Value, varMap[coefs[j].Name].Value), CapturedSum(coefs, j + 1, varMap))

\* the values of the variable map satisfy the row a FreeCol entry has captured
RowSatisfied(it, varMap) ==
    /\ \A j \in 1..Len(it.Row.Coef) : it.Row.Coef[j].Name \in DOMAIN varMap
    /\ RLe(InputRowOf(it).RHSlo, CapturedSum(it.Row.Coef, 1, varMap))
    /\ RLe(CapturedSum(it.Row.Coef, 1, varMap), InputRowOf(it).RHSup)

\* the FreeCol entries of the ledger whose rows were removed as they were read
WholeFreeColEntries ==
    {i \in 1..Len(psOpList) : psOpList[i].OpType = psopFreeCol /\ CapturedWhole(psOpList[i])}

\* C36: after postSolve the values of the variable map satisfy the row of every
\* FreeCol entry as it stood when it was removed: the sum of coefficient times
\* value over the captured coefficients lies within [RHSlo, RHSup] of that
\* row, whatever its sense, R included.
C36_FreeColRowsSatisfied ==
    (pc = "done" /\ sol.solved /\ sol.stage = "returned") =>
        \A i \in WholeFreeColEntries : RowSatisfied(psOpList[i], sol.VarMap)

\* C36 for the senses other than R
C36_FreeColRowsSatisfiedUnlessRange ==
    (pc = "done" /\ sol.solved /\ sol.stage = "returned") =>
        \A i \in WholeFreeColEntries :
            psOpList[i].Row.Type # "R" => RowSatisfied(psOpList[i], sol.VarMap)

\* the column of the model CplexSolveProb was called on that has the name of
\* the column captured by a ledger entry
InputColOf(it) == sol.inCols[CHOOSE k \in 1..Len(sol.inCols) : sol.inCols[k].Name = it.Col.Name]

\* the ledger entries for which postSolve inserts a variable
ColumnEntries(kinds) == {i \in 1..Len(psOpList) : psOpList[i].OpType \in kinds}

\* the value the variable map has for the column of an entry lies within the
\* bounds that column had in the input model
WithinInputBounds(it, varMap) ==
    /\ it.Col.Name \in DOMAIN varMap
    /\ RLe(InputColOf(it).BndLo, varMap[it.Col.Name].Value)
    /\ RLe(varMap[it.Col.Name].Value, InputColOf(it).BndUp)

\* C37: every variable postSolve inserts for a column removed during presolve
\* (fixed variable, empty column, row singleton, free column singleton) has a
\* value within the bounds the column had in the input model.
C37_InsertedWithinBounds ==
    (pc = "done" /\ sol.solved /\ sol.stage = "returned") =>
        \A i \in ColumnEntries({psopFixedVar, psopEmptyCol, psopRowSingltn, psopFreeCol}) :
            WithinInputBounds(psOpList[i], sol.VarMap)

\* C37 for the columns removed as fixed variables and as free column singletons
C37_FixedAndFreeWithinBounds ==
    (pc = "done" /\ sol.solved /\ sol.stage = "returned") =>
        \A i \in ColumnEntries({psopFixedVar, psopFreeCol}) :
            WithinInputBounds(psOpList[i], sol.VarMap)

\* C38: if ObjRow >= 0 before ReduceMatrix, the row at index ObjRow after it
\* has the name of the row that was at ObjRow before, under every combination
\* of flags.  The rows of a model are named r0, r1, ... by index when
\* ReduceMatrix is called on it for the first time.
C38_ObjectiveRowKept ==
    (pc = "idle" /\ run.runs = 1 /\ ObjRow >= 0) =>
        /\ ObjRow < Len(Rows)
        /\ Rows[ObjRow + 1].Name = RowName(ObjRow)

\* the rows are named by index before the first call
C38_NamedByIndex ==
    (pc = "idle" /\ run.runs = 0) => \A i \in 1..Len(Rows) : Rows[i].Name = RowName(i - 1)

\* no row and no column of the store has state delete
NothingTagged ==
    /\ \A i \in 1..Len(Rows) : Rows[i].State # stateDelete
    /\ \A j \in 1..Len(Cols) : Cols[j].State # stateDelete

\* C39: whenever a reduction kernel returns, on any path, no row and no column
\* left in the store has state delete.
C39_NothingLeftTagged ==
    (last.op \in Range(KernelNames) /\ pc # "corrupt") => NothingTagged

\* C39 for the kernels other than delRowSingletons, called on a store in which
\* nothing is tagged
C39_NothingLeftTaggedByOthers ==
    (/\ last.op \in Range(KernelNames) \ {"delRowSingletons"}
     /\ pc # "corrupt"
     /\ \A i \in 1..Len(last.pre.R) : last.pre.R[i].State # stateDelete
     /\ \A j \in 1..Len(last.pre.C) : last.pre.C[j].State # stateDelete) => NothingTagged

-----------------------------------------------------------------------------
(* SpecGpx: TransFromGpx called on lists in gpx format, with every type of *)
(* column and every sense of row at every position.                         *)
(*   last: the arguments of the call and how it ended: "ok" (nil), "error"  *)
(*         (an error value) or "panic" (an index out of range)              *)

\* the longest list of gpx rows and of gpx columns
MaxGpx == 2

\* the column types and the row senses TransFromGpx translates, and one that
\* it does not
GpxColTypes == {"C", "I", "B", "S", "N"}

GpxSenses == {"L", "E", "G", "R"}

GpxUnexpected == "X"

GpxCol(j, type) == [Name |-> ColName(j), Type |-> type, BndLo |-> Q(0), BndUp |-> Plinfy]

GpxRow(i, sense) == [Name |-> RowName(i), Sense |-> sense, Rhs |-> Q(4), RngVal |-> Q(2)]

GpxColLists ==
    UNION {{[j \in 1..n |-> GpxCol(j - 1, t[j])] : t \in [1..n -> GpxColTypes \cup {GpxUnexpected}]} :
              n \in 0..MaxGpx}

GpxRowLists ==
    UNION {{[i \in 1..n |-> GpxRow(i - 1, t[i])] : t \in [1..n -> GpxSenses \cup {GpxUnexpected}]} :
              n \in 0..MaxGpx}

GpxElemLists == {<<>>, <<[RowIndex |-> 0, ColIndex |-> 0, Value |-> Q(2)]>>}

GpxObjLists == {<<>>, <<[ColIndex |-> 0, Value |-> Q(3)]>>}

\* how a call of TransFromGpx ended and the store it left
Gpx(out, st) == [out |-> out, st |-> st]

\* InitModel, whose body is not part of the sources: it initializes the input
\* data structures
InitModel(st) == Store(<<>>, <<>>, <<>>)

\* switch gCols[i].Type { case "C": "R"; case "I", "B": "I"; case "S": "I"; case "N": "I" }
TransColType(type) == IF type = "C" THEN "R" ELSE "I"

\* for i := 0; i < len(gCols); i++ { ... Cols = append(Cols, colItem) }; the
\* default case formats its error from Cols[i].Type and Cols[i].Name
RECURSIVE TransCols(_, _, _)
TransCols(gCols, i, st) ==
    IF i >= Len(gCols) THEN Gpx("ok", st)
    ELSE IF At(gCols, i).Type \notin GpxColTypes
    THEN Gpx(IF i < Len(st.C) THEN "error" ELSE "panic", st)
    ELSE TransCols(gCols, i + 1,
                   Store(st.R,
                         Append(st.C, InputCol(At(gCols, i).Name, TransColType(At(gCols, i).Type),
                                               At(gCols, i).BndLo, At(gCols, i).BndUp)),
                         st.E))

\* switch gRows[i].Sense { case "L": ...; case "E": ...; case "G": ...; case "R": ... }
TransRowItem(g) ==
    IF g.Sense = "L" THEN InputRow(g.Name, "L", RNeg(Plinfy), g.Rhs)
    ELSE IF g.Sense = "E" THEN InputRow(g.Name, "E", g.Rhs, g.Rhs)
    ELSE IF g.Sense = "G" THEN InputRow(g.Name, "G", g.Rhs, Plinfy)
    ELSE InputRow(g.Name, "R", g.Rhs, RAdd(g.Rhs, g.RngVal))

\* for i := 0; i < len(gRows); i++ { ... Rows = append(Rows, rowItem) }; the
\* default case formats its error from Rows[i].Type and Rows[i].Name
RECURSIVE TransRows(_, _, _)
TransRows(gRows, i, st) ==
    IF i >= Len(gRows) THEN Gpx("ok", st)
    ELSE IF At(gRows, i).Sense \notin GpxSenses
    THEN Gpx(IF i < Len(st.R) THEN "error" ELSE "panic", st)
    ELSE TransRows(gRows, i + 1, Store(Append(st.R, TransRowItem(At(gRows, i))), st.C, st.E))

\* for i := 0; i < len(gElem); i++ { Elems = append(Elems, elemItem);
\*     Rows[elemItem.InRow].HasElems = append(..., i); Cols[elemItem.InCol].HasElems = ... }
RECURSIVE TransElems(_, _, _)
TransElems(gElem, i, st) ==
    IF i >= Len(gElem) THEN Gpx("ok", st)
    ELSE IF At(gElem, i).RowIndex < 0 \/ At(gElem, i).RowIndex >= Len(st.R)
    THEN Gpx("panic", Store(st.R, st.C, Append(st.E, InputElem(At(gElem, i).RowIndex,
                                                                 At(gElem, i).ColIndex,
                                                                 At(gElem, i).Value))))
    ELSE IF At(gElem, i).ColIndex < 0 \/ At(gElem, i).ColIndex >= Len(st.C)
    THEN Gpx("panic",
             Store([st.R EXCEPT ![At(gElem, i).RowIndex + 1].HasElems = Append(@, i)], st.C,
                   Append(st.E, InputElem(At(gElem, i).RowIndex, At(gElem, i).ColIndex,
                                          At(gElem, i).Value))))
    ELSE TransElems(gElem, i + 1,
                    Store([st.R EXCEPT ![At(gElem, i).RowIndex + 1].HasElems = Append(@, i)],
                          [st.C EXCEPT ![At(gElem, i).ColIndex + 1].HasElems = Append(@, i)],
                          Append(st.E, InputElem(At(gElem, i).RowIndex, At(gElem, i).ColIndex,
                                                 At(gElem, i).Value))))

\* if len(gObj) > 0 { ...; for i := 0; i < len(gObj); i++ { elemItem.InRow = len(Rows);
\*     rowItem.HasElems = append(rowItem.HasElems, len(Elems)); Elems = append(Elems, elemItem) };
\*     Rows = append(Rows, rowItem) }
TransObj(gObj, objNm, st) ==
    IF Len(gObj) = 0 THEN st
    ELSE Store(Append(st.R,
                      [InputRow(IF objNm = "" THEN "ObjFunc" ELSE objNm, "N", Q(0), Q(0))
                          EXCEPT !.HasElems = [k \in 1..Len(gObj) |-> Len(st.E) + k - 1]]),
               st.C,
               st.E \o [k \in 1..Len(gObj) |->
                           InputElem(Len(st.R), gObj[k].ColIndex, gObj[k].Value)])

\* AdjustModel, whose body is not part of the sources: "Move objective
\* function to top of list and calculate gradient vectors"
AdjustModel(st) ==
    IF st.R # <<>> /\ st.R[Len(st.R)].Type = "N"
    THEN [swapRows(st, 0, Len(st.R) - 1).st EXCEPT
             !.C = [j \in 1..Len(st.C) |->
                       [st.C[j] EXCEPT !.HasElems =
                           @ \o SelectSeq(st.R[Len(st.R)].HasElems,
                                          LAMBDA e : At(st.E, e).InCol = j - 1)]]]
    ELSE st

\* the index AdjustModel leaves in ObjRow
AdjustedObjRow(st) == IF st.R # <<>> /\ st.R[1].Type = "N" THEN 0 ELSE 0 - 1

\* TransFromGpx from the loop over the elements on
TransFromElems(e, gObj, objNm) ==
    IF e.out # "ok" THEN e ELSE Gpx("ok", AdjustModel(TransObj(gObj, objNm, e.st)))

\* TransFromGpx from the loop over the rows on
TransFromRows(r, gElem, gObj, objNm) ==
    IF r.out # "ok" THEN r ELSE TransFromElems(TransElems(gElem, 0, r.st), gObj, objNm)

\* TransFromGpx from the loop over the columns on
TransFromCols(c, gRows, gElem, gObj, objNm) ==
    IF c.out # "ok" THEN c ELSE TransFromRows(TransRows(gRows, 0, c.st), gElem, gObj, objNm)

\* func TransFromGpx(probNm, objNm, gRows, gCols, gElem, gObj) error
TransFromGpx(st, objNm, gRows, gCols, gElem, gObj) ==
    IF Len(gRows) = 0 \/ Len(gCols) = 0 \/ Len(gElem) = 0 THEN Gpx("error", st)
    ELSE TransFromCols(TransCols(gCols, 0, InitModel(st)), gRows, gElem, gObj, objNm)

GpxArgs(op, out, a) ==
    [op |-> op, out |-> out, gRows |-> a.gRows, gCols |-> a.gCols, gElem |-> a.gElem,
     gObj |-> a.gObj]

\* lpo.TransFromGpx(probNm, objNm, gRows, gCols, gElem, gObj) on the lists last holds
CallTransFromGpx ==
    /\ pc = "gpx"
    /\ \E t \in {TransFromGpx(Cur, "", last.gRows, last.gCols, last.gElem, last.gObj)} :
          /\ Rows' = t.st.R
          /\ Cols' = t.st.C
          /\ Elems' = t.st.E
          /\ ObjRow' = IF t.out = "ok" THEN AdjustedObjRow(t.st) ELSE ObjRow
          /\ pc' = IF t.out = "panic" THEN "panic" ELSE "loaded"
          /\ last' = GpxArgs("TransFromGpx", t.out, last)
    /\ UNCHANGED <<psOpList, psc, run, sol>>

NextGpx == CallTransFromGpx

InitGpx ==
    /\ Rows = <<>>
    /\ Cols = <<>>
    /\ Elems = <<>>
    /\ ObjRow = 0 - 1
    /\ psOpList = <<>>
    /\ pc = "gpx"
    /\ psc = NoCtl
    /\ run = NoRun
    /\ sol = NoSol
    /\ \E gRows \in GpxRowLists, gCols \in GpxColLists, gElem \in GpxElemLists,
          gObj \in GpxObjLists :
          last = [op |-> "init", out |-> "", gRows |-> gRows, gCols |-> gCols,
                  gElem |-> gElem, gObj |-> gObj]

SpecGpx == InitGpx /\ [][NextGpx]_vars

\* the call was given nonempty lists with a column of unexpected type or a row
\* of unexpected sense
UnexpectedGiven ==
    /\ last.op = "TransFromGpx"
    /\ last.gRows # <<>> /\ last.gCols # <<>> /\ last.gElem # <<>>
    /\ \/ \E j \in 1..Len(last.gCols) : last.gCols[j].Type \notin GpxColTypes
       \/ \E i \in 1..Len(last.gRows) : last.gRows[i].Sense \notin GpxSenses

\* C40: TransFromGpx given a column whose type is not one of C, I, B, S, N or a
\* row whose sense is not one of L, E, G, R returns an error value to its
\* caller and does not crash, wherever the column or row stands in its list.
C40_UnexpectedTypeIsError ==
    UnexpectedGiven => last.out = "error"

\* C40, what does hold: such a call never returns nil, and a call given
\* translatable types only, or an empty list, does not crash
C40_UnexpectedTypeNeverLoads ==
    /\ UnexpectedGiven => last.out # "ok"
    /\ (last.op = "TransFromGpx" /\ ~UnexpectedGiven) => last.out \in {"ok", "error"}


=============================================================================
